---- MODULE Spec2Model ----
(***************************************************************************)
(* ValueX-DCF: the DCF engine (models/dcf_model.py), the sensitivity       *)
(* matrix (models/sensitivity_analysis.py) and the risk analyzer           *)
(* (models/risk_analysis.py) as state machines over exact arithmetic.      *)
(*                                                                         *)
(* Python floats are modelled as exact rationals.  A rate (growth, WACC,   *)
(* terminal growth, a price) is a small fraction [n, d] in lowest terms.   *)
(* A money value (a cash flow, an enterprise value, a value per share) is  *)
(* a signed big numerator over a denominator kept as a bag of small        *)
(* factors, so that the fifth powers of the five-year projection are       *)
(* exact and never overflow.                                               *)
(***************************************************************************)
EXTENDS Integers, Sequences, FiniteSets, TLC

\* ------------------------------------------------------------------------
\* Small fractions: the float literals and the rate parameters of the code.
\* ------------------------------------------------------------------------

Abs(x) == IF x < 0 THEN -x ELSE x

RECURSIVE GCD(_, _)
GCD(a, b) == IF b = 0 THEN a ELSE GCD(b, a % b)

\* the float n/d, in lowest terms with a positive denominator
Rat(n, d) ==
    LET g == GCD(Abs(n), Abs(d))
        s == IF d < 0 THEN -1 ELSE 1
    IN [n |-> s * (n \div g), d |-> s * (d \div g)]

QInt(k) == [n |-> k, d |-> 1]
QAdd(a, b) == Rat(a.n * b.d + b.n * a.d, a.d * b.d)
QSub(a, b) == Rat(a.n * b.d - b.n * a.d, a.d * b.d)
QLe(a, b) == a.n * b.d <= b.n * a.d
QLt(a, b) == a.n * b.d < b.n * a.d
QMul(a, b) == Rat(a.n * b.n, a.d * b.d)
QMax(a, b) == IF QLt(a, b) THEN b ELSE a
QMin(a, b) == IF QLt(b, a) THEN b ELSE a

\* ------------------------------------------------------------------------
\* Big naturals: little-endian limbs, no leading zero limb, <<>> is zero.
\* ------------------------------------------------------------------------

LimbBase == 100 * 100

RECURSIVE MagFromNat(_)
MagFromNat(k) ==
    IF k = 0 THEN <<>> ELSE <<k % LimbBase>> \o MagFromNat(k \div LimbBase)

RECURSIVE MagMulCarry(_, _, _)
MagMulCarry(m, k, c) ==
    IF m = <<>> THEN MagFromNat(c)
    ELSE LET p == Head(m) * k + c
         IN <<p % LimbBase>> \o MagMulCarry(Tail(m), k, p \div LimbBase)

\* m * k for a small natural k
MagMulSmall(m, k) == IF k = 0 \/ m = <<>> THEN <<>> ELSE MagMulCarry(m, k, 0)

RECURSIVE MagAddCarry(_, _, _)
MagAddCarry(a, b, c) ==
    IF a = <<>> /\ b = <<>> THEN MagFromNat(c)
    ELSE LET x == IF a = <<>> THEN 0 ELSE Head(a)
             y == IF b = <<>> THEN 0 ELSE Head(b)
             t == x + y + c
         IN <<t % LimbBase>>
              \o MagAddCarry(IF a = <<>> THEN a ELSE Tail(a),
                             IF b = <<>> THEN b ELSE Tail(b),
                             t \div LimbBase)

MagAdd(a, b) == MagAddCarry(a, b, 0)

RECURSIVE MagCmpFrom(_, _, _)
MagCmpFrom(a, b, i) ==
    IF i = 0 THEN 0
    ELSE IF a[i] < b[i] THEN -1
    ELSE IF a[i] > b[i] THEN 1
    ELSE MagCmpFrom(a, b, i - 1)

\* -1, 0, 1 as a < b, a = b, a > b
MagCmp(a, b) ==
    IF Len(a) < Len(b) THEN -1
    ELSE IF Len(a) > Len(b) THEN 1
    ELSE MagCmpFrom(a, b, Len(a))

RECURSIVE MagStrip(_)
MagStrip(m) ==
    IF m = <<>> THEN m
    ELSE IF m[Len(m)] = 0 THEN MagStrip(SubSeq(m, 1, Len(m) - 1))
    ELSE m

RECURSIVE MagSubBorrow(_, _, _)
MagSubBorrow(a, b, c) ==
    IF a = <<>> THEN <<>>
    ELSE LET y == IF b = <<>> THEN 0 ELSE Head(b)
             t == Head(a) - y - c
         IN <<IF t < 0 THEN t + LimbBase ELSE t>>
              \o MagSubBorrow(Tail(a), IF b = <<>> THEN b ELSE Tail(b),
                              IF t < 0 THEN 1 ELSE 0)

\* a - b for a >= b
MagSub(a, b) == MagStrip(MagSubBorrow(a, b, 0))

\* ------------------------------------------------------------------------
\* Money values: s * m / (product of the factors in den), s the sign.
\* ------------------------------------------------------------------------

NoDen == [k \in {} |-> 0]

DenCount(den, k) == IF k \in DOMAIN den THEN den[k] ELSE 0

DenTimes(den, k) ==
    IF k = 1 THEN den
    ELSE [f \in DOMAIN den \cup {k} |-> DenCount(den, f) + (IF f = k THEN 1 ELSE 0)]

DenJoin(a, b) ==
    [f \in DOMAIN a \cup DOMAIN b |->
        IF DenCount(a, f) > DenCount(b, f) THEN DenCount(a, f) ELSE DenCount(b, f)]

RECURSIVE MagMulPow(_, _, _)
MagMulPow(m, k, e) == IF e = 0 \/ m = <<>> THEN m ELSE MagMulPow(MagMulSmall(m, k), k, e - 1)

\* m scaled from denominator `from` to the joined denominator `to`
RECURSIVE MagScale(_, _, _, _)
MagScale(m, from, to, todo) ==
    IF todo = {} \/ m = <<>> THEN m
    ELSE LET f == CHOOSE x \in todo : TRUE
         IN MagScale(MagMulPow(m, f, to[f] - DenCount(from, f)), from, to, todo \ {f})

VZero == [s |-> 0, m |-> <<>>, den |-> NoDen]

VMake(s, m, den) == IF m = <<>> \/ s = 0 THEN VZero ELSE [s |-> s, m |-> m, den |-> den]

Sign(k) == IF k < 0 THEN -1 ELSE IF k > 0 THEN 1 ELSE 0

VFromInt(k) == VMake(Sign(k), MagFromNat(Abs(k)), NoDen)

VFromQ(q) == VMake(Sign(q.n), MagFromNat(Abs(q.n)), DenTimes(NoDen, q.d))

\* v * q
VMulQ(v, q) == VMake(v.s * Sign(q.n), MagMulSmall(v.m, Abs(q.n)), DenTimes(v.den, q.d))

\* v / q for q # 0
VDivQ(v, q) == VMake(v.s * Sign(q.n), MagMulSmall(v.m, q.d), DenTimes(v.den, Abs(q.n)))

VNeg(v) == [v EXCEPT !.s = -v.s]

VAdd(a, b) ==
    LET den == DenJoin(a.den, b.den)
        x == MagScale(a.m, a.den, den, DOMAIN den)
        y == MagScale(b.m, b.den, den, DOMAIN den)
        c == MagCmp(x, y)
    IN IF a.s = 0 THEN b
       ELSE IF b.s = 0 THEN a
       ELSE IF a.s = b.s THEN VMake(a.s, MagAdd(x, y), den)
       ELSE IF c = 0 THEN VZero
       ELSE IF c > 0 THEN VMake(a.s, MagSub(x, y), den)
       ELSE VMake(b.s, MagSub(y, x), den)

VSub(a, b) == VAdd(a, VNeg(b))

\* the sign of v
VSign(v) == v.s

VLt(a, b) == VSign(VSub(a, b)) < 0
VLe(a, b) == VSign(VSub(a, b)) <= 0
VEq(a, b) == VSign(VSub(a, b)) = 0

\* v * q^e and v / q^e
RECURSIVE VMulQPow(_, _, _)
VMulQPow(v, q, e) == IF e = 0 \/ v.s = 0 THEN v ELSE VMulQPow(VMulQ(v, q), q, e - 1)

RECURSIVE VDivQPow(_, _, _)
VDivQPow(v, q, e) == IF e = 0 \/ v.s = 0 THEN v ELSE VDivQPow(VDivQ(v, q), q, e - 1)

\* seq[1] + ... + seq[n]
RECURSIVE VSumTo(_, _)
VSumTo(seq, n) == IF n = 0 THEN VZero ELSE VAdd(VSumTo(seq, n - 1), seq[n])

VSum(seq) == VSumTo(seq, Len(seq))

\* m \div k and whether the division is exact, for a small k > 0
MagDivSmall(m, k) ==
    LET RECURSIVE Go(_, _)
        Go(i, r) ==
            IF i = 0 THEN [q |-> <<>>, r |-> r]
            ELSE LET cur == r * LimbBase + m[i]
                     rest == Go(i - 1, cur % k)
                 IN [q |-> rest.q \o <<cur \div k>>, r |-> rest.r]
        d == Go(Len(m), 0)
    IN [q |-> MagStrip(d.q), exact |-> d.r = 0]

\* floor(m / product of den) and whether the division is exact
RECURSIVE MagFloorDen(_, _, _, _)
MagFloorDen(m, den, todo, exact) ==
    IF todo = {} \/ m = <<>> THEN [q |-> m, exact |-> exact]
    ELSE LET f == CHOOSE x \in todo : TRUE
             RECURSIVE Pow(_, _, _)
             Pow(x, e, ex) ==
                 IF e = 0 \/ x = <<>> THEN [q |-> x, exact |-> ex]
                 ELSE LET d == MagDivSmall(x, f) IN Pow(d.q, e - 1, ex /\ d.exact)
             p == Pow(m, den[f], exact)
         IN MagFloorDen(p.q, den, todo \ {f}, p.exact)

\* round(v, ndigits): to the nearest multiple of 10 ** -ndigits, ties to even
PyRound(v, ndigits) ==
    LET scale == 10 ^ ndigits
        fl == MagFloorDen(MagMulSmall(v.m, 2 * scale), v.den, DOMAIN v.den, TRUE)
        odd == fl.q # <<>> /\ fl.q[1] % 2 = 1
        half == MagDivSmall(fl.q, 2).q
        up == MagAdd(half, <<1>>)
        halfOdd == half # <<>> /\ half[1] % 2 = 1
        r == IF ~odd THEN half
             ELSE IF ~fl.exact THEN up
             ELSE IF halfOdd THEN up ELSE half
    IN VMake(v.s, r, DenTimes(NoDen, scale))

\* ------------------------------------------------------------------------
\* Calls: a call returns a value or raises an exception.
\* ------------------------------------------------------------------------

Return(v) == [exc |-> "none", value |-> v]
Raise(type, msg) == [exc |-> type, msg |-> msg]
Raised(r) == r.exc # "none"

\* ------------------------------------------------------------------------
\* models/dcf_model.py
\* ------------------------------------------------------------------------

GrowthMin == Rat(-1, 2)
GrowthMax == Rat(1, 1)
WaccMin == Rat(1, 100)
WaccMax == Rat(1, 2)
TerminalMin == Rat(-1, 10)
TerminalMax == Rat(15, 100)

\* validate_inputs accepting wacc = terminal_growth (< for <=)
validate_inputs_spread_lt(base_fcf, growth_rate, wacc, terminal_growth, shares_outstanding) ==
    IF VSign(base_fcf) <= 0
      THEN Raise("ValueError", "Base FCF must be positive")
    ELSE IF ~(QLe(GrowthMin, growth_rate) /\ QLe(growth_rate, GrowthMax))
      THEN Raise("ValueError", "Growth rate should be between -50% and 100%")
    ELSE IF ~(QLe(WaccMin, wacc) /\ QLe(wacc, WaccMax))
      THEN Raise("ValueError", "WACC should be between 1% and 50%")
    ELSE IF ~(QLe(TerminalMin, terminal_growth) /\ QLe(terminal_growth, TerminalMax))
      THEN Raise("ValueError", "Terminal growth should be between -10% and 15%")
    ELSE IF QLt(wacc, terminal_growth)
      THEN Raise("ValueError", "WACC must be greater than terminal growth")
    ELSE IF QLe(shares_outstanding, QInt(0))
      THEN Raise("ValueError", "Shares outstanding must be positive")
    ELSE Return(TRUE)

\* validate_inputs accepting base_fcf = 0 (< for <=)
validate_inputs_fcf_lt(base_fcf, growth_rate, wacc, terminal_growth, shares_outstanding) ==
    IF VSign(base_fcf) < 0
      THEN Raise("ValueError", "Base FCF must be positive")
    ELSE IF ~(QLe(GrowthMin, growth_rate) /\ QLe(growth_rate, GrowthMax))
      THEN Raise("ValueError", "Growth rate should be between -50% and 100%")
    ELSE IF ~(QLe(WaccMin, wacc) /\ QLe(wacc, WaccMax))
      THEN Raise("ValueError", "WACC should be between 1% and 50%")
    ELSE IF ~(QLe(TerminalMin, terminal_growth) /\ QLe(terminal_growth, TerminalMax))
      THEN Raise("ValueError", "Terminal growth should be between -10% and 15%")
    ELSE IF QLe(wacc, terminal_growth)
      THEN Raise("ValueError", "WACC must be greater than terminal growth")
    ELSE IF QLe(shares_outstanding, QInt(0))
      THEN Raise("ValueError", "Shares outstanding must be positive")
    ELSE Return(TRUE)

\* validate_inputs: base_fcf is a money value, the rest are fractions
validate_inputs(base_fcf, growth_rate, wacc, terminal_growth, shares_outstanding) ==
    IF VSign(base_fcf) <= 0
      THEN Raise("ValueError", "Base FCF must be positive")
    ELSE IF ~(QLe(GrowthMin, growth_rate) /\ QLe(growth_rate, GrowthMax))
      THEN Raise("ValueError", "Growth rate should be between -50% and 100%")
    ELSE IF ~(QLe(WaccMin, wacc) /\ QLe(wacc, WaccMax))
      THEN Raise("ValueError", "WACC should be between 1% and 50%")
    ELSE IF ~(QLe(TerminalMin, terminal_growth) /\ QLe(terminal_growth, TerminalMax))
      THEN Raise("ValueError", "Terminal growth should be between -10% and 15%")
    ELSE IF QLe(wacc, terminal_growth)
      THEN Raise("ValueError", "WACC must be greater than terminal growth")
    ELSE IF QLe(shares_outstanding, QInt(0))
      THEN Raise("ValueError", "Shares outstanding must be positive")
    ELSE Return(TRUE)

\* the placeholder WACC, terminal growth and shares of project_fcf's validation,
\* and the placeholder growth of calculate_dcf's
PlaceholderWacc == Rat(1, 10)
PlaceholderTerminal == Rat(3, 100)
PlaceholderShares == QInt(1)
PlaceholderGrowth == Rat(1, 10)

\* project_fcf looping over range(years): the exponents start at 0
project_fcf_from_zero(base_fcf, growth_rate, years) ==
    LET v == validate_inputs(VFromQ(base_fcf), growth_rate, PlaceholderWacc,
                             PlaceholderTerminal, PlaceholderShares)
    IN IF Raised(v) THEN v
       ELSE Return([i \in 1..years |->
                VMulQ(VMulQPow(VFromInt(1), QAdd(QInt(1), growth_rate), i - 1), base_fcf)])

\* project_fcf: years values, the i-th (1-based) base_fcf * (1 + growth_rate) ** i
project_fcf(base_fcf, growth_rate, years) ==
    LET v == validate_inputs(VFromQ(base_fcf), growth_rate, PlaceholderWacc,
                             PlaceholderTerminal, PlaceholderShares)
    IN IF Raised(v) THEN v
       ELSE Return([i \in 1..years |->
                VMulQ(VMulQPow(VFromInt(1), QAdd(QInt(1), growth_rate), i), base_fcf)])

\* the returned dictionary, intrinsic_value = enterprise_value / shares_outstanding
dcf_record(discounted_fcf, discounted_terminal, terminal_value, terminal_fcf, pv_explicit_fcf, enterprise_value, shares_outstanding) ==
    Return([enterprise_value |-> enterprise_value,
            intrinsic_value |-> VDivQ(enterprise_value, shares_outstanding),
            discounted_fcf |-> discounted_fcf,
            discounted_terminal |-> discounted_terminal,
            terminal_value |-> terminal_value,
            pv_explicit_fcf |-> pv_explicit_fcf,
            terminal_fcf |-> terminal_fcf])

\* enterprise_value = pv_explicit_fcf + discounted_terminal
dcf_totals(discounted_fcf, discounted_terminal, terminal_value, terminal_fcf, pv_explicit_fcf, shares_outstanding) ==
    dcf_record(discounted_fcf, discounted_terminal, terminal_value, terminal_fcf,
               pv_explicit_fcf, VAdd(pv_explicit_fcf, discounted_terminal),
               shares_outstanding)

\* calculate_dcf's body discounting year i by (1 + wacc) ** (i - 1)
calculate_dcf_body_early(fcf_list, wacc, terminal_growth, shares_outstanding) ==
    LET n == Len(fcf_list)
        onePlusWacc == QAdd(QInt(1), wacc)
        spread == QSub(wacc, terminal_growth)
        discounted_fcf == [i \in 1..n |-> VDivQPow(fcf_list[i], onePlusWacc, i - 1)]
        final_fcf == fcf_list[n]
        terminal_fcf == VMulQ(final_fcf, QAdd(QInt(1), terminal_growth))
        terminal_value == VDivQ(terminal_fcf, spread)
        discounted_terminal == VDivQPow(terminal_value, onePlusWacc, n)
    IN IF onePlusWacc.n = 0 \/ spread.n = 0 \/ shares_outstanding.n = 0
         THEN Raise("ZeroDivisionError", "float division by zero")
       ELSE dcf_totals(discounted_fcf, discounted_terminal, terminal_value,
                       terminal_fcf, VSum(discounted_fcf), shares_outstanding)

\* the try body of calculate_dcf; a float division by zero raises ZeroDivisionError
calculate_dcf_body(fcf_list, wacc, terminal_growth, shares_outstanding) ==
    LET n == Len(fcf_list)
        onePlusWacc == QAdd(QInt(1), wacc)
        spread == QSub(wacc, terminal_growth)
        discounted_fcf == [i \in 1..n |-> VDivQPow(fcf_list[i], onePlusWacc, i)]
        final_fcf == fcf_list[n]
        terminal_fcf == VMulQ(final_fcf, QAdd(QInt(1), terminal_growth))
        terminal_value == VDivQ(terminal_fcf, spread)
        discounted_terminal == VDivQPow(terminal_value, onePlusWacc, n)
    IN IF onePlusWacc.n = 0 \/ spread.n = 0 \/ shares_outstanding.n = 0
         THEN Raise("ZeroDivisionError", "float division by zero")
       ELSE dcf_totals(discounted_fcf, discounted_terminal, terminal_value,
                       terminal_fcf, VSum(discounted_fcf), shares_outstanding)

\* calculate_dcf with neither the validation nor the ZeroDivisionError handler
calculate_dcf_unguarded(fcf_list, wacc, terminal_growth, shares_outstanding) ==
    IF fcf_list = <<>> THEN Raise("ValueError", "FCF list cannot be empty")
    ELSE calculate_dcf_body(fcf_list, wacc, terminal_growth, shares_outstanding)

\* the rates and the share count checked before the list
calculate_dcf_rates_first(fcf_list, wacc, terminal_growth, shares_outstanding) ==
    LET v == validate_inputs(IF fcf_list = <<>> THEN VFromInt(1) ELSE fcf_list[1],
                             PlaceholderGrowth, wacc, terminal_growth, shares_outstanding)
        r == calculate_dcf_body(fcf_list, wacc, terminal_growth, shares_outstanding)
    IN IF Raised(v) THEN v
       ELSE IF fcf_list = <<>> THEN Raise("ValueError", "FCF list cannot be empty")
       ELSE IF r.exc = "ZeroDivisionError"
         THEN Raise("ValueError", "WACC must be greater than terminal growth rate")
       ELSE r

\* calculate_dcf validating the placeholder share count in place of the caller's
calculate_dcf_placeholder_shares(fcf_list, wacc, terminal_growth, shares_outstanding) ==
    IF fcf_list = <<>> THEN Raise("ValueError", "FCF list cannot be empty")
    ELSE LET v == validate_inputs(fcf_list[1], PlaceholderGrowth, wacc, terminal_growth,
                                  PlaceholderShares)
             r == calculate_dcf_body(fcf_list, wacc, terminal_growth, shares_outstanding)
         IN IF Raised(v) THEN v
            ELSE IF r.exc = "ZeroDivisionError"
              THEN Raise("ValueError", "WACC must be greater than terminal growth rate")
            ELSE r

\* calculate_dcf requiring every element of the list to be positive
calculate_dcf_all_elements(fcf_list, wacc, terminal_growth, shares_outstanding) ==
    IF fcf_list = <<>> THEN Raise("ValueError", "FCF list cannot be empty")
    ELSE LET v == validate_inputs(fcf_list[1], PlaceholderGrowth, wacc, terminal_growth,
                                  shares_outstanding)
             r == calculate_dcf_body(fcf_list, wacc, terminal_growth, shares_outstanding)
         IN IF \E i \in DOMAIN fcf_list : VSign(fcf_list[i]) <= 0
              THEN Raise("ValueError", "Base FCF must be positive")
            ELSE IF Raised(v) THEN v
            ELSE IF r.exc = "ZeroDivisionError"
              THEN Raise("ValueError", "WACC must be greater than terminal growth rate")
            ELSE r

calculate_dcf(fcf_list, wacc, terminal_growth, shares_outstanding) ==
    IF fcf_list = <<>> THEN Raise("ValueError", "FCF list cannot be empty")
    ELSE LET v == validate_inputs(fcf_list[1], PlaceholderGrowth, wacc, terminal_growth,
                                  shares_outstanding)
             r == calculate_dcf_body(fcf_list, wacc, terminal_growth, shares_outstanding)
         IN IF Raised(v) THEN v
            ELSE IF r.exc = "ZeroDivisionError"
              THEN Raise("ValueError", "WACC must be greater than terminal growth rate")
            ELSE r

\* the statement pair `fcf_proj = project_fcf(...)`, `calculate_dcf(fcf_proj, ...)`
\* of every caller: the projection's exception, else calculate_dcf's outcome
dcf_pipeline(base_fcf, growth_rate, years, wacc, terminal_growth, shares_outstanding) ==
    LET p == project_fcf(base_fcf, growth_rate, years)
    IN IF Raised(p) THEN p
       ELSE calculate_dcf(p.value, wacc, terminal_growth, shares_outstanding)

\* ------------------------------------------------------------------------
\* models/sensitivity_analysis.py
\* ------------------------------------------------------------------------

\* project_fcf's default for years
DefaultYears == 5

\* matrix[key] = row on a dict kept as the sequence of its entries in insertion order
DictSet(dict, key, row) ==
    IF \E i \in 1..Len(dict) : dict[i].key = key
      THEN [i \in 1..Len(dict) |->
               IF dict[i].key = key THEN [key |-> key, row |-> row] ELSE dict[i]]
    ELSE Append(dict, [key |-> key, row |-> row])

\* Python's None: an argument left out, a cell without a value
NoneValue == [none |-> TRUE]

\* one cell: the rounded intrinsic value, None on ZeroDivisionError, any other
\* exception is not handled
matrix_cell(projected_fcf, wacc, tg, shares) ==
    LET r == calculate_dcf(projected_fcf, wacc, tg, shares)
    IN IF r.exc = "ZeroDivisionError" THEN Return(NoneValue)
       ELSE IF Raised(r) THEN r
       ELSE Return(PyRound(r.value.intrinsic_value, 2))

\* the loop over wacc_range: row i is stored under the key round(wacc * 100, 1)
RECURSIVE matrix_rows(_, _, _, _, _)
matrix_rows(i, matrix, cells, wacc_range, terminal_growth_range) ==
    IF i > Len(wacc_range) THEN matrix
    ELSE matrix_rows(i + 1,
             DictSet(matrix,
                     PyRound(VMulQ(VFromQ(wacc_range[i]), QInt(100)), 1),
                     [j \in 1..Len(terminal_growth_range) |-> cells[<<i, j>>].value]),
             cells, wacc_range, terminal_growth_range)

\* the two loops over the outcomes of the cells: the first exception that is not
\* handled leaves the function, else the matrix is returned
matrix_loops(cells, wacc_range, terminal_growth_range) ==
    LET raising == {c \in DOMAIN cells : Raised(cells[c])}
        firstRaising ==
            CHOOSE c \in raising :
                \A o \in raising : c[1] < o[1] \/ (c[1] = o[1] /\ c[2] <= o[2])
    IN IF raising # {} THEN cells[firstRaising]
       ELSE Return(matrix_rows(1, <<>>, cells, wacc_range, terminal_growth_range))

\* generate_sensitivity_matrix, given the outcome of its call of project_fcf
matrix_of_projection(p, shares, wacc_range, terminal_growth_range) ==
    IF Raised(p) THEN p
    ELSE matrix_loops(
             [c \in (1..Len(wacc_range)) \X (1..Len(terminal_growth_range)) |->
                 matrix_cell(p.value, wacc_range[c[1]], terminal_growth_range[c[2]],
                             shares)],
             wacc_range, terminal_growth_range)

generate_sensitivity_matrix(base_fcf, shares, growth_rate, wacc_range, terminal_growth_range) ==
    matrix_of_projection(project_fcf(base_fcf, growth_rate, DefaultYears), shares,
                         wacc_range, terminal_growth_range)

\* ------------------------------------------------------------------------
\* models/risk_analysis.py
\* ------------------------------------------------------------------------

\* the horizon every RiskAnalyzer method passes to project_fcf
ProjectionYears == 5

\* self.data.get(key, default)
DataGet(d, key, default) == IF key \in DOMAIN d THEN d[key] ELSE default

\* the growth clamped with the upper bound of the discount rate
clamp_and_repair_narrow(g, w, t) ==
    LET growth == QMax(Rat(-1, 2), QMin(Rat(1, 2), g))
        wacc == QMax(Rat(1, 100), QMin(Rat(1, 2), w))
        terminal == QMax(Rat(-1, 10), QMin(Rat(15, 100), t))
    IN [growth |-> growth, wacc |-> wacc,
        terminal |-> IF QLe(wacc, terminal) THEN QSub(wacc, Rat(1, 100)) ELSE terminal]

\* the clamps without the repair
clamp_only(g, w, t) ==
    [growth |-> QMax(Rat(-1, 2), QMin(Rat(1, 1), g)),
     wacc |-> QMax(Rat(1, 100), QMin(Rat(1, 2), w)),
     terminal |-> QMax(Rat(-1, 10), QMin(Rat(15, 100), t))]

\* "Ensure valid parameters": clamp each to its bounds, then, if wacc <= terminal,
\* terminal = wacc - 0.01
\* the repair that moves terminal onto wacc
clamp_and_repair_equal(g, w, t) ==
    LET growth == QMax(Rat(-1, 2), QMin(Rat(1, 1), g))
        wacc == QMax(Rat(1, 100), QMin(Rat(1, 2), w))
        terminal == QMax(Rat(-1, 10), QMin(Rat(15, 100), t))
    IN [growth |-> growth, wacc |-> wacc,
        terminal |-> IF QLe(wacc, terminal) THEN wacc ELSE terminal]

clamp_and_repair(g, w, t) ==
    LET growth == QMax(Rat(-1, 2), QMin(Rat(1, 1), g))
        wacc == QMax(Rat(1, 100), QMin(Rat(1, 2), w))
        terminal == QMax(Rat(-1, 10), QMin(Rat(15, 100), t))
    IN [growth |-> growth, wacc |-> wacc,
        terminal |-> IF QLe(wacc, terminal) THEN QSub(wacc, Rat(1, 100)) ELSE terminal]

\* the two calls in a try block of a method: project_fcf, then calculate_dcf on
\* self.data['shares_outstanding'], a KeyError when the snapshot has none
analyzer_dcf(d, base_fcf, params) ==
    IF "shares_outstanding" \notin DOMAIN d
      THEN LET p == project_fcf(base_fcf, params.growth, ProjectionYears)
           IN IF Raised(p) THEN p ELSE Raise("KeyError", "'shares_outstanding'")
    ELSE dcf_pipeline(base_fcf, params.growth, ProjectionYears, params.wacc,
                      params.terminal, d.shares_outstanding)

\* ---- monte_carlo_simulation ----

\* a sorted by value, ascending
RECURSIVE VInsert(_, _)
VInsert(sorted, v) ==
    IF sorted = <<>> THEN <<v>>
    ELSE IF VLe(v, Head(sorted)) THEN <<v>> \o sorted
    ELSE <<Head(sorted)>> \o VInsert(Tail(sorted), v)

RECURSIVE VSortTo(_, _)
VSortTo(seq, n) == IF n = 0 THEN <<>> ELSE VInsert(VSortTo(seq, n - 1), seq[n])

\* np.percentile(values, q), linear interpolation, on the sorted values
np_percentile(sorted, q) ==
    LET n == Len(sorted)
        pos == Rat(q * (n - 1), 100)
        k == pos.n \div pos.d
        frac == QSub(pos, QInt(k))
    IN IF frac.n = 0 THEN sorted[k + 1]
       ELSE VAdd(sorted[k + 1], VMulQ(VSub(sorted[k + 2], sorted[k + 1]), frac))

\* the detail records kept
DetailCap == 1000

\* one trial: the sampled parameters (np.random.normal(mean, std) = mean + std * z),
\* clamped and repaired, and the outcome of the DCF
\* the trial run on the sampled values as they are
mc_trial_unclamped(d, base_fcf, growth_params, wacc_params, terminal_params, z) ==
    LET params == [growth |-> QAdd(growth_params.mean, QMul(growth_params.std, z[1])),
                   wacc |-> QAdd(wacc_params.mean, QMul(wacc_params.std, z[2])),
                   terminal |-> QAdd(terminal_params.mean, QMul(terminal_params.std, z[3]))]
    IN [params |-> params, dcf |-> analyzer_dcf(d, base_fcf, params)]

mc_trial(d, base_fcf, growth_params, wacc_params, terminal_params, z) ==
    LET params == clamp_and_repair(QAdd(growth_params.mean, QMul(growth_params.std, z[1])),
                                   QAdd(wacc_params.mean, QMul(wacc_params.std, z[2])),
                                   QAdd(terminal_params.mean, QMul(terminal_params.std, z[3])))
    IN [params |-> params, dcf |-> analyzer_dcf(d, base_fcf, params)]

\* the statistics over the surviving trials; std_dev (a square root) is left out
mc_statistics(d, results, sorted) ==
    Return([simulation_count |-> Len(results),
            mean_value |-> VDivQ(VSum(sorted), QInt(Len(sorted))),
            median_value |-> np_percentile(sorted, 50),
            min_value |-> sorted[1],
            max_value |-> sorted[Len(sorted)],
            percentiles |-> [q \in {5, 25, 75, 95} |-> np_percentile(sorted, q)],
            var_95 |-> np_percentile(sorted, 5),
            probability_positive |->
                Rat(Cardinality({i \in DOMAIN results :
                                    VSign(results[i].intrinsic_value) > 0}),
                    Len(results)),
            current_price |-> DataGet(d, "current_price", QInt(0)),
            detailed_results |->
                SubSeq(results, 1, IF Len(results) < DetailCap THEN Len(results)
                                   ELSE DetailCap)])

mc_collect(d, results) ==
    IF results = <<>> THEN Return([error |-> "No valid simulation results"])
    ELSE mc_statistics(d, results,
            VSortTo([i \in DOMAIN results |-> results[i].intrinsic_value], Len(results)))

mc_entry(t) ==
    [intrinsic_value |-> t.dcf.value.intrinsic_value, growth |-> t.params.growth,
     wacc |-> t.params.wacc, terminal |-> t.params.terminal]

\* the surviving trials kept newest first
RECURSIVE mc_results_newest_first(_, _)
mc_results_newest_first(trials, n) ==
    IF n = 0 THEN <<>>
    ELSE IF Raised(trials[n].dcf) THEN mc_results_newest_first(trials, n - 1)
    ELSE <<mc_entry(trials[n])>> \o mc_results_newest_first(trials, n - 1)

RECURSIVE mc_results(_, _)
mc_results(trials, n) ==
    IF n = 0 THEN <<>>
    ELSE IF Raised(trials[n].dcf) THEN mc_results(trials, n - 1)
    ELSE Append(mc_results(trials, n - 1), mc_entry(trials[n]))

\* draws[i] are the three standard normal values trial i samples with
monte_carlo_simulation(d, base_fcf, growth_params, wacc_params, terminal_params, simulations, draws) ==
    mc_collect(d,
        mc_results([i \in 1..simulations |->
                       mc_trial(d, base_fcf, growth_params, wacc_params, terminal_params,
                                draws[i])],
                   IF simulations < 0 THEN 0 ELSE simulations))

\* ---- scenario_analysis ----

ScenarioNames == <<"bear", "base", "bull">>

scenario_params(base_params) ==
    [name \in {"bear", "base", "bull"} |->
        IF name = "bear"
          THEN [growth |-> QSub(base_params.growth, Rat(5, 100)),
                wacc |-> QAdd(base_params.wacc, Rat(2, 100)),
                terminal |-> QSub(base_params.terminal, Rat(1, 100)),
                description |-> "Conservative/pessimistic scenario"]
        ELSE IF name = "base"
          THEN [growth |-> base_params.growth,
                wacc |-> base_params.wacc,
                terminal |-> base_params.terminal,
                description |-> "Most likely scenario"]
        ELSE [growth |-> QAdd(base_params.growth, Rat(5, 100)),
              wacc |-> QSub(base_params.wacc, Rat(1, 100)),
              terminal |-> QAdd(base_params.terminal, Rat(1, 100)),
              description |-> "Optimistic scenario"]]

\* the entry of one scenario, from the outcomes of project_fcf and of the DCF
scenario_entry(params, description, p, dcf) ==
    IF Raised(dcf) THEN [error |-> dcf.msg]
    ELSE [intrinsic_value |-> dcf.value.intrinsic_value,
          enterprise_value |-> dcf.value.enterprise_value,
          parameters |-> params,
          description |-> description,
          projected_fcf |-> p.value]

\* the scenario run on clamped parameters without the repair of terminal
scenario_run_unrepaired(d, raw) ==
    LET params == clamp_only(raw.growth, raw.wacc, raw.terminal)
    IN IF "fcf" \notin DOMAIN d THEN [error |-> "'fcf'"]
       ELSE scenario_entry(params, raw.description,
                           project_fcf(d.fcf, params.growth, ProjectionYears),
                           analyzer_dcf(d, d.fcf, params))

scenario_run(d, raw) ==
    LET params == clamp_and_repair(raw.growth, raw.wacc, raw.terminal)
    IN IF "fcf" \notin DOMAIN d THEN [error |-> "'fcf'"]
       ELSE scenario_entry(params, raw.description,
                           project_fcf(d.fcf, params.growth, ProjectionYears),
                           analyzer_dcf(d, d.fcf, params))

\* the percentage computed for every current_price other than 0
percent_vs_price_nonzero(entry, current_price) ==
    IF current_price.n # 0
      THEN VMulQ(VDivQ(VSub(IF "intrinsic_value" \in DOMAIN entry
                              THEN entry.intrinsic_value ELSE VZero,
                            VFromQ(current_price)),
                       current_price),
                 QInt(100))
    ELSE VZero

\* (value - current_price) / current_price * 100 if current_price > 0 else 0,
\* the value 0 for an entry without an intrinsic value
percent_vs_price(entry, current_price) ==
    IF current_price.n > 0
      THEN VMulQ(VDivQ(VSub(IF "intrinsic_value" \in DOMAIN entry
                              THEN entry.intrinsic_value ELSE VZero,
                            VFromQ(current_price)),
                       current_price),
                 QInt(100))
    ELSE VZero

scenario_summary(results, sorted, current_price) ==
    IF sorted = <<>> THEN Return([error |-> "No valid scenario results"])
    ELSE Return([scenarios |-> results,
                 value_range |-> [min |-> sorted[1], max |-> sorted[Len(sorted)],
                                  spread |-> VSub(sorted[Len(sorted)], sorted[1])],
                 current_price |-> current_price,
                 upside_downside |->
                    [bull_upside |-> percent_vs_price(results["bull"], current_price),
                     bear_downside |-> percent_vs_price(results["bear"], current_price)]])

\* the intrinsic values of the entries that have one, in the order of names
RECURSIVE valid_values(_, _, _)
valid_values(results, names, n) ==
    IF n = 0 THEN <<>>
    ELSE IF "intrinsic_value" \in DOMAIN results[names[n]]
      THEN Append(valid_values(results, names, n - 1), results[names[n]].intrinsic_value)
    ELSE valid_values(results, names, n - 1)

scenario_collect(d, results) ==
    scenario_summary(results,
        LET v == valid_values(results, ScenarioNames, Len(ScenarioNames))
        IN VSortTo(v, Len(v)),
        DataGet(d, "current_price", QInt(0)))

scenario_analysis(d, base_params) ==
    scenario_collect(d,
        [name \in {"bear", "base", "bull"} |-> scenario_run(d, scenario_params(base_params)[name])])

\* ---- stress_testing ----

StressNames == <<"recession", "high_inflation", "market_crash", "industry_disruption">>

stress_params(base_params) ==
    [name \in {"recession", "high_inflation", "market_crash", "industry_disruption"} |->
        IF name = "recession"
          THEN [growth |-> Rat(-20, 100),
                wacc |-> QAdd(base_params.wacc, Rat(5, 100)),
                terminal |-> Rat(1, 100),
                description |-> "Economic recession scenario"]
        ELSE IF name = "high_inflation"
          THEN [growth |-> QSub(base_params.growth, Rat(10, 100)),
                wacc |-> QAdd(base_params.wacc, Rat(8, 100)),
                terminal |-> QAdd(base_params.terminal, Rat(2, 100)),
                description |-> "High inflation environment"]
        ELSE IF name = "market_crash"
          THEN [growth |-> Rat(-30, 100),
                wacc |-> QAdd(base_params.wacc, Rat(10, 100)),
                terminal |-> Rat(-5, 100),
                description |-> "Market crash scenario"]
        ELSE [growth |-> Rat(-15, 100),
              wacc |-> QAdd(base_params.wacc, Rat(3, 100)),
              terminal |-> Rat(5, 1000),
              description |-> "Industry disruption scenario"]]

\* the quotient num / den of two values, kept as the pair
VRatio(num, den) == [num |-> num, den |-> den]

\* (value - base) / base * 100 if base > 0 else 0
impact_vs_base(value, base) ==
    IF VSign(base) > 0 THEN VRatio(VMulQ(VSub(value, base), QInt(100)), base) ELSE VZero

\* the entry of one stress scenario: the scenario's DCF, then the DCF on the base
\* parameters as given, both inside the scenario's try block
stress_entry(params, description, dcf, base_dcf, current_price) ==
    IF Raised(dcf) THEN [error |-> dcf.msg]
    ELSE IF Raised(base_dcf) THEN [error |-> base_dcf.msg]
    ELSE [intrinsic_value |-> dcf.value.intrinsic_value,
          parameters |-> params,
          description |-> description,
          impact_vs_base |-> impact_vs_base(dcf.value.intrinsic_value,
                                            base_dcf.value.intrinsic_value),
          downside_from_current |->
              percent_vs_price([intrinsic_value |-> dcf.value.intrinsic_value],
                               current_price)]

stress_run(d, raw, base_dcf, current_price) ==
    LET params == clamp_and_repair(raw.growth, raw.wacc, raw.terminal)
    IN IF "fcf" \notin DOMAIN d THEN [error |-> "'fcf'"]
       ELSE stress_entry(params, raw.description, analyzer_dcf(d, d.fcf, params), base_dcf,
                         current_price)

\* r.get('downside_from_current', 0) of the entries that have one, in the order of names
RECURSIVE downsides(_, _, _)
downsides(results, names, n) ==
    IF n = 0 THEN <<>>
    ELSE IF "downside_from_current" \in DOMAIN results[names[n]]
      THEN Append(downsides(results, names, n - 1), results[names[n]].downside_from_current)
    ELSE downsides(results, names, n - 1)

\* the thresholds taken inclusive
resilience_label_ge(sorted) ==
    IF sorted = <<>> THEN "Unknown"
    ELSE IF VLe(VFromInt(-20), sorted[1]) THEN "High Resilience"
    ELSE IF VLe(VFromInt(-40), sorted[1]) THEN "Medium Resilience"
    ELSE "Low Resilience"

resilience_label(sorted) ==
    IF sorted = <<>> THEN "Unknown"
    ELSE IF VLt(VFromInt(-20), sorted[1]) THEN "High Resilience"
    ELSE IF VLt(VFromInt(-40), sorted[1]) THEN "Medium Resilience"
    ELSE "Low Resilience"

_assess_stress_resilience(stress_results, names, current_price) ==
    resilience_label(LET ds == downsides(stress_results, names, Len(names))
                     IN VSortTo(ds, Len(ds)))

stress_summary(results, sorted, sortedDown, current_price) ==
    IF sorted = <<>> THEN Return([error |-> "No valid stress test results"])
    ELSE Return([stress_scenarios |-> results,
                 worst_case_value |-> sorted[1],
                 maximum_downside |-> sortedDown[1],
                 stress_resilience |->
                    _assess_stress_resilience(results, StressNames, current_price)])

stress_collect(results, current_price) ==
    stress_summary(results,
        LET v == valid_values(results, StressNames, Len(StressNames))
        IN VSortTo(v, Len(v)),
        LET ds == downsides(results, StressNames, Len(StressNames))
        IN VSortTo(ds, Len(ds)),
        current_price)

stress_runs(d, scenarios, base_dcf, current_price) ==
    stress_collect([name \in DOMAIN scenarios |->
                       stress_run(d, scenarios[name], base_dcf, current_price)],
                   current_price)

stress_testing(d, base_params) ==
    stress_runs(d, stress_params(base_params),
                IF "fcf" \in DOMAIN d THEN analyzer_dcf(d, d.fcf, base_params)
                ELSE Raise("KeyError", "'fcf'"),
                DataGet(d, "current_price", QInt(0)))

\* ---- risk_adjusted_valuation ----

risk_adjustments ==
    [f \in {"High debt levels", "Negative free cash flow", "High price volatility",
            "High market sensitivity", "Industry cyclicality", "Regulatory risk",
            "Currency risk", "Liquidity risk"} |->
        CASE f = "High debt levels" -> Rat(10, 100)
          [] f = "Negative free cash flow" -> Rat(15, 100)
          [] f = "High price volatility" -> Rat(8, 100)
          [] f = "High market sensitivity" -> Rat(5, 100)
          [] f = "Industry cyclicality" -> Rat(7, 100)
          [] f = "Regulatory risk" -> Rat(12, 100)
          [] f = "Currency risk" -> Rat(6, 100)
          [] f = "Liquidity risk" -> Rat(9, 100)]

\* the loop over risk_factors: the discount after the first n factors
RECURSIVE risk_discount_to(_, _)
risk_discount_to(risk_factors, n) ==
    IF n = 0 THEN Rat(0, 1)
    ELSE IF risk_factors[n] \in DOMAIN risk_adjustments
      THEN QAdd(risk_discount_to(risk_factors, n - 1), risk_adjustments[risk_factors[n]])
    ELSE risk_discount_to(risk_factors, n - 1)

applied_adjustments(risk_factors) ==
    [f \in {risk_factors[i] : i \in DOMAIN risk_factors} \cap DOMAIN risk_adjustments |->
        risk_adjustments[f]]

risk_adjusted_record(base_valuation, risk_discount, risk_factors) ==
    Return([base_valuation |-> base_valuation,
            risk_adjusted_valuation |-> VMulQ(base_valuation, QSub(Rat(1, 1), risk_discount)),
            total_risk_discount |-> risk_discount,
            applied_adjustments |-> applied_adjustments(risk_factors),
            risk_factors |-> risk_factors])

\* the discount left without its cap
risk_adjusted_valuation_uncapped(base_valuation, risk_factors) ==
    risk_adjusted_record(base_valuation, risk_discount_to(risk_factors, Len(risk_factors)),
                         risk_factors)

risk_adjusted_valuation(base_valuation, risk_factors) ==
    risk_adjusted_record(base_valuation,
                         QMin(risk_discount_to(risk_factors, Len(risk_factors)), Rat(40, 100)),
                         risk_factors)

\* ---- sensitivity_analysis_detailed ----

SweepPoints == 11

\* np.linspace(lo, hi, SweepPoints), without the rounding of its floats
linspace(lo, hi) ==
    [k \in 1..SweepPoints |->
        QAdd(lo, QMul(QSub(hi, lo), Rat(k - 1, SweepPoints - 1)))]

default_param_ranges(base_params) ==
    [growth |-> linspace(QSub(base_params.growth, Rat(5, 100)),
                         QAdd(base_params.growth, Rat(5, 100))),
     wacc |-> linspace(QSub(base_params.wacc, Rat(2, 100)),
                       QAdd(base_params.wacc, Rat(2, 100))),
     terminal |-> linspace(QSub(base_params.terminal, Rat(2, 100)),
                           QAdd(base_params.terminal, Rat(2, 100)))]

\* the order in which the parameters of a range record are swept
ParamOrder == <<"growth", "wacc", "terminal">>

\* a + b over the least common denominator
QAddLcm(a, b) ==
    LET g == GCD(a.d, b.d)
    IN Rat(a.n * (b.d \div g) + b.n * (a.d \div g), (a.d \div g) * b.d)

RECURSIVE QSumTo(_, _)
QSumTo(seq, n) == IF n = 0 THEN Rat(0, 1) ELSE QAddLcm(QSumTo(seq, n - 1), seq[n])

\* stats.linregress(x, y): the slope, and the sign of r_value (its size is a square
\* root); identical x values raise ValueError
linregress_of(dx, dy) ==
    LET ssxm == QSumTo([i \in DOMAIN dx |-> QMul(dx[i], dx[i])], Len(dx))
        ssxym == VSum([i \in DOMAIN dx |-> VMulQ(dy[i], dx[i])])
    IN IF ssxm.n = 0
         THEN Raise("ValueError",
                    "Cannot calculate a linear regression if all x values are identical")
       ELSE Return([slope |-> VDivQ(ssxym, ssxm),
                    r_sign |-> IF \A i \in DOMAIN dy : VSign(dy[i]) = 0 THEN 0
                               ELSE VSign(ssxym)])

linregress_means(xs, ys, x_mid, y_mid) ==
    linregress_of([i \in DOMAIN xs |-> QSub(xs[i], x_mid)],
                  [i \in DOMAIN ys |-> VSub(ys[i], y_mid)])

linregress(xs, ys) ==
    linregress_means(xs, ys, QMul(QSumTo(xs, Len(xs)), Rat(1, Len(xs))),
                     VDivQ(VSum(ys), QInt(Len(ys))))

\* _calculate_elasticity: (slope * x_mid) / y_mid, 0 when y_mid = 0 or on an exception
elasticity_of(reg, x_mid, y_mid) ==
    IF Raised(reg) \/ VSign(y_mid) = 0 THEN VZero
    ELSE VRatio(VMulQ(reg.value.slope, x_mid), y_mid)

_calculate_elasticity(x_values, y_values) ==
    IF Len(x_values) < 2 \/ Len(y_values) < 2 THEN VZero
    ELSE elasticity_of(linregress(x_values, y_values),
                       QMul(QSumTo(x_values, Len(x_values)), Rat(1, Len(x_values))),
                       VDivQ(VSum(y_values), QInt(Len(y_values))))

\* test_params = base_params.copy(); test_params[param_name] = value: the record the
\* point is computed from, and the caller's record after the write
copy_and_set_alias(base_params, param_name, value) ==
    [test_params |-> [base_params EXCEPT ![param_name] = value],
     base_params |-> [base_params EXCEPT ![param_name] = value]]

copy_and_set(base_params, param_name, value) ==
    [test_params |-> [base_params EXCEPT ![param_name] = value],
     base_params |-> base_params]

\* one swept value: the point it adds to param_results, or none
sweep_point(d, test_params, value) ==
    LET growth == QMax(Rat(-1, 2), QMin(Rat(1, 1), test_params.growth))
        wacc == QMax(Rat(1, 100), QMin(Rat(1, 2), test_params.wacc))
        terminal == QMax(Rat(-1, 10), QMin(Rat(15, 100), test_params.terminal))
    IN IF QLe(wacc, terminal) \/ "fcf" \notin DOMAIN d THEN <<>>
       ELSE LET dcf == analyzer_dcf(d, d.fcf,
                                    [growth |-> growth, wacc |-> wacc, terminal |-> terminal])
            IN IF Raised(dcf) THEN <<>>
               ELSE <<[parameter_value |-> value,
                       intrinsic_value |-> dcf.value.intrinsic_value]>>

\* the loop over the values of one parameter: param_results, and the caller's record
sweep_step(d, prev, written, value) ==
    [points |-> prev.points \o sweep_point(d, written.test_params, value),
     base_params |-> written.base_params]

RECURSIVE sweep_points(_, _, _, _, _)
sweep_points(d, base_params, param_name, param_values, n) ==
    IF n = 0 THEN [points |-> <<>>, base_params |-> base_params]
    ELSE LET prev == sweep_points(d, base_params, param_name, param_values, n - 1)
         IN sweep_step(d, prev,
                       copy_and_set(prev.base_params, param_name, param_values[n]),
                       param_values[n])

\* the entry of a parameter with at least one point; an exception of linregress leaves
\* the method
param_entry(param_results, values, sorted, param_values_used, base_value, reg) ==
    IF Len(values) > 1
      THEN IF Raised(reg) THEN reg
           ELSE Return([results |-> param_results,
                        sensitivity |-> reg.value.slope,
                        correlation |-> [sign |-> reg.value.r_sign],
                        base_value |-> base_value,
                        value_range |-> [min |-> sorted[1], max |-> sorted[Len(sorted)]],
                        elasticity |-> _calculate_elasticity(param_values_used, values)])
    ELSE Return([results |-> param_results, error |-> "Insufficient data"])

param_sweep(param_results, values, param_values_used, base_value) ==
    param_entry(param_results, values, VSortTo(values, Len(values)), param_values_used,
                base_value,
                IF Len(values) > 1 THEN linregress(param_values_used, values)
                ELSE Raise("none", "not called"))

param_outcome(param_results, base_value) ==
    param_sweep(param_results,
                [i \in DOMAIN param_results |-> param_results[i].intrinsic_value],
                [i \in DOMAIN param_results |-> param_results[i].parameter_value],
                base_value)

\* the loop over the parameters: results gets an entry for a parameter only when
\* param_results is not empty; an exception leaves the method with {'error': ...}
sensitivity_next(name, swept, entry, results) ==
    IF swept.points = <<>> THEN Return(results)
    ELSE IF Raised(entry) THEN Return([error |-> entry.msg])
    ELSE Return([k \in DOMAIN results \cup {name} |->
                    IF k = name THEN entry.value ELSE results[k]])

sensitivity_step(name, swept, results) ==
    [outcome |-> sensitivity_next(name, swept,
                                  param_outcome(swept.points, swept.base_params[name]),
                                  results),
     base_params |-> swept.base_params]

RECURSIVE sensitivity_loop(_, _, _, _, _)
sensitivity_loop(d, base_params, param_ranges, names, results) ==
    IF names = <<>> THEN [outcome |-> Return(results), base_params |-> base_params]
    ELSE LET step == sensitivity_step(Head(names),
                                      sweep_points(d, base_params, Head(names),
                                                   param_ranges[Head(names)],
                                                   Len(param_ranges[Head(names)])),
                                      results)
         IN IF "error" \in DOMAIN step.outcome.value THEN step
            ELSE sensitivity_loop(d, step.base_params, param_ranges, Tail(names),
                                  step.outcome.value)

\* the call: its outcome, and the caller's base_params when it returns; param_ranges is
\* None or a record of sequences of values
sensitivity_call(d, base_params, param_ranges) ==
    LET ranges == IF param_ranges = NoneValue THEN default_param_ranges(base_params)
                  ELSE param_ranges
    IN sensitivity_loop(d, base_params, ranges,
                        SelectSeq(ParamOrder, LAMBDA n : n \in DOMAIN ranges),
                        [k \in {} |-> k])

sensitivity_analysis_detailed(d, base_params, param_ranges) ==
    sensitivity_call(d, base_params, param_ranges).outcome

\* ---- the methods of the class, and interface/cli.py _run_risk_analysis ----

RiskAnalyzerMethods ==
    {"__init__", "monte_carlo_simulation", "scenario_analysis",
     "sensitivity_analysis_detailed", "stress_testing", "_calculate_elasticity",
     "_assess_stress_resilience", "risk_adjusted_valuation"}

\* risk_analyzer.risk_metrics(): the attribute is looked up on the object first
analyzer_risk_metrics ==
    IF "risk_metrics" \in RiskAnalyzerMethods THEN Return("risk_metrics")
    ELSE Raise("AttributeError", "'RiskAnalyzer' object has no attribute 'risk_metrics'")

\* the workflow of the command line: any exception becomes the error record
run_risk_analysis(d, growth, wacc, terminal, monte_carlo, simulations, draws) ==
    IF Raised(analyzer_risk_metrics) THEN Return([error |-> analyzer_risk_metrics.msg])
    ELSE LET base_params == [growth |-> growth, wacc |-> wacc, terminal |-> terminal]
             results == [risk_metrics |-> analyzer_risk_metrics.value,
                         scenario_analysis |-> scenario_analysis(d, base_params).value,
                         stress_testing |-> stress_testing(d, base_params).value]
         IN IF ~monte_carlo THEN Return(results)
            ELSE IF "fcf" \notin DOMAIN d THEN Return([error |-> "'fcf'"])
            ELSE Return([k \in DOMAIN results \cup {"monte_carlo"} |->
                    IF k \in DOMAIN results THEN results[k]
                    ELSE monte_carlo_simulation(d, d.fcf,
                            [mean |-> growth, std |-> Rat(2, 100)],
                            [mean |-> wacc, std |-> Rat(1, 100)],
                            [mean |-> terminal, std |-> Rat(5, 1000)],
                            simulations, draws).value])

\* ------------------------------------------------------------------------
\* models/valuation_methods.py: ValuationSuite
\* ------------------------------------------------------------------------

\* a method's except clause: {'method': name, 'error': str(e)}
method_error(method, msg) == [method |-> method, error |-> msg]

dcf_entry(p, dcf, growth_rate, wacc, terminal_growth, years) ==
    IF Raised(dcf) THEN method_error("DCF", dcf.msg)
    ELSE [method |-> "DCF",
          intrinsic_value |-> dcf.value.intrinsic_value,
          enterprise_value |-> dcf.value.enterprise_value,
          projected_fcf |-> p.value,
          assumptions |-> [growth_rate |-> growth_rate, wacc |-> wacc,
                           terminal_growth |-> terminal_growth, years |-> years]]

dcf_valuation(d, growth_rate, wacc, terminal_growth, years) ==
    IF "fcf" \notin DOMAIN d THEN method_error("DCF", "'fcf'")
    ELSE IF "shares_outstanding" \notin DOMAIN d
      THEN LET p == project_fcf(d.fcf, growth_rate, years)
           IN method_error("DCF", IF Raised(p) THEN p.msg ELSE "'shares_outstanding'")
    ELSE dcf_entry(project_fcf(d.fcf, growth_rate, years),
                   dcf_pipeline(d.fcf, growth_rate, years, wacc, terminal_growth,
                                d.shares_outstanding),
                   growth_rate, wacc, terminal_growth, years)

default_multiples ==
    [pe_ratio |-> Rat(15, 1), ev_ebitda |-> Rat(10, 1), price_sales |-> Rat(2, 1),
     price_book |-> Rat(3, 2)]

\* np.mean(values) if values else 0, over the values that are > 0
RECURSIVE positive_values(_, _)
positive_values(seq, n) ==
    IF n = 0 THEN <<>>
    ELSE IF VSign(seq[n]) > 0 THEN Append(positive_values(seq, n - 1), seq[n])
    ELSE positive_values(seq, n - 1)

mean_or_zero(values) ==
    IF values = <<>> THEN VZero ELSE VDivQ(VSum(values), QInt(Len(values)))

median_or_zero(values) ==
    IF values = <<>> THEN VZero ELSE np_percentile(VSortTo(values, Len(values)), 50)

relative_record(multiples, eps, ebitda, revenue_per_share, pe_value, ev_ebitda_value, ps_value) ==
    [method |-> "Relative Valuation",
     pe_valuation |-> pe_value,
     ev_ebitda_valuation |-> ev_ebitda_value,
     price_sales_valuation |-> ps_value,
     average_value |-> mean_or_zero(positive_values(<<pe_value, ev_ebitda_value, ps_value>>, 3)),
     multiples_used |-> multiples,
     metrics |-> [eps |-> eps, ebitda |-> ebitda, revenue_per_share |-> revenue_per_share]]

relative_values(multiples, revenue, total_debt, shares, eps, ebitda) ==
    relative_record(multiples, eps, ebitda, VDivQ(revenue, shares),
                    VMulQ(eps, multiples.pe_ratio),
                    VDivQ(VSub(VMulQ(ebitda, multiples.ev_ebitda), total_debt), shares),
                    VMulQ(VDivQ(revenue, shares), multiples.price_sales))

\* sector_multiples is None or a record of multiples
relative_valuation(d, sector_multiples) ==
    LET multiples == IF sector_multiples = NoneValue THEN default_multiples
                     ELSE sector_multiples
        revenue == VFromQ(DataGet(d, "revenue", QInt(0)))
    IN IF "shares_outstanding" \notin DOMAIN d
         THEN method_error("Relative Valuation", "'shares_outstanding'")
       ELSE IF d.shares_outstanding.n = 0
         THEN method_error("Relative Valuation", "float division by zero")
       ELSE relative_values(multiples, revenue,
                            VFromQ(DataGet(d, "total_debt", QInt(0))),
                            d.shares_outstanding,
                            IF d.shares_outstanding.n > 0
                              THEN VDivQ(VMulQ(revenue, Rat(10, 100)), d.shares_outstanding)
                              ELSE VZero,
                            VMulQ(revenue, Rat(15, 100)))

ddm_record(estimated_dividend, dividend_growth, required_return) ==
    [method |-> "Dividend Discount Model",
     intrinsic_value |->
        VDivQ(VMulQ(estimated_dividend, QAdd(Rat(1, 1), dividend_growth)),
              QSub(required_return, dividend_growth)),
     estimated_dividend |-> estimated_dividend,
     assumptions |-> [dividend_growth |-> dividend_growth,
                      required_return |-> required_return]]

dividend_discount_model(d, dividend_growth, required_return) ==
    IF "shares_outstanding" \notin DOMAIN d
      THEN method_error("Dividend Discount Model", "'shares_outstanding'")
    ELSE IF d.shares_outstanding.n = 0
      THEN method_error("Dividend Discount Model", "float division by zero")
    ELSE IF QLe(required_return, dividend_growth)
      THEN method_error("Dividend Discount Model",
                        "Required return must be greater than dividend growth rate")
    ELSE ddm_record(VDivQ(VMulQ(VFromQ(DataGet(d, "revenue", QInt(0))), Rat(3, 100)),
                          d.shares_outstanding),
                    dividend_growth, required_return)

DefaultDividendGrowth == Rat(3, 100)
DefaultRequiredReturn == Rat(10, 100)

asset_record(book_value_per_share) ==
    [method |-> "Asset-Based Valuation",
     book_value_per_share |-> book_value_per_share,
     liquidation_value |-> VMulQ(book_value_per_share, Rat(7, 10)),
     note |-> "Simplified estimation - requires actual balance sheet analysis"]

asset_based_valuation(d) ==
    IF "shares_outstanding" \notin DOMAIN d
      THEN method_error("Asset-Based Valuation", "'shares_outstanding'")
    ELSE IF d.shares_outstanding.n = 0
      THEN method_error("Asset-Based Valuation", "division by zero")
    ELSE asset_record(VDivQ(VFromQ(DataGet(d, "market_cap", QInt(0))), d.shares_outstanding))

\* the thresholds taken inclusive
_categorize_risk_ge(volatility, beta) ==
    IF QLe(Rat(4, 10), volatility) \/ QLe(Rat(15, 10), beta) THEN "High Risk"
    ELSE IF QLe(Rat(25, 100), volatility) \/ QLe(Rat(12, 10), beta) THEN "Medium Risk"
    ELSE "Low Risk"

_categorize_risk(volatility, beta) ==
    IF QLt(Rat(4, 10), volatility) \/ QLt(Rat(15, 10), beta) THEN "High Risk"
    ELSE IF QLt(Rat(25, 100), volatility) \/ QLt(Rat(12, 10), beta) THEN "Medium Risk"
    ELSE "Low Risk"

_identify_risk_factors(d) ==
    LET factors ==
            (IF QLt(DataGet(d, "market_cap", QInt(0)), DataGet(d, "total_debt", QInt(0)))
               THEN <<"High debt levels">> ELSE <<>>)
            \o (IF DataGet(d, "fcf", QInt(0)).n <= 0
                  THEN <<"Negative free cash flow">> ELSE <<>>)
            \o (IF QLt(Rat(4, 10), DataGet(d, "volatility", QInt(0)))
                  THEN <<"High price volatility">> ELSE <<>>)
            \o (IF QLt(Rat(15, 10), DataGet(d, "beta", Rat(1, 1)))
                  THEN <<"High market sensitivity">> ELSE <<>>)
    IN IF factors = <<>> THEN <<"No major risk factors identified">> ELSE factors

risk_metrics_record(d, current_price, volatility, beta) ==
    [volatility |-> volatility,
     beta |-> beta,
     var_95 |-> VMulQ(VMulQ(VFromQ(current_price), volatility), Rat(1645, 1000)),
     sharpe_ratio |-> IF volatility.n > 0 THEN VDivQ(VFromQ(Rat(5, 100)), volatility)
                      ELSE VZero,
     risk_level |-> _categorize_risk(volatility, beta),
     risk_factors |-> _identify_risk_factors(d)]

risk_metrics(d) ==
    risk_metrics_record(d, DataGet(d, "current_price", QInt(0)),
                        DataGet(d, "volatility", Rat(25, 100)), DataGet(d, "beta", Rat(1, 1)))

_calculate_confidence(d, results) ==
    LET quality == DataGet(d, "data_quality", "None")
        valid_methods ==
            Cardinality({m \in {"dcf", "relative", "ddm"} :
                            m \in DOMAIN results /\ "error" \notin DOMAIN results[m]})
        score ==
            (IF quality = "Good" THEN 30 ELSE IF quality = "Fair" THEN 15 ELSE 0)
            + valid_methods * 20
            + (IF "risk_metrics" \in DOMAIN results
               THEN IF "risk_factors" \in DOMAIN results["risk_metrics"]
                      THEN IF Len(results["risk_metrics"].risk_factors) <= 2 THEN 20 ELSE 0
                      ELSE 20
               ELSE 0)
    IN IF score >= 80 THEN "High" ELSE IF score >= 50 THEN "Medium" ELSE "Low"

\* the thresholds of the recommendation taken inclusive
recommendation_of_ge(upside) ==
    IF VLe(VFromInt(20), upside) THEN "Strong Buy"
    ELSE IF VLe(VFromInt(10), upside) THEN "Buy"
    ELSE IF VLe(VFromInt(-10), upside) THEN "Hold"
    ELSE IF VLe(VFromInt(-20), upside) THEN "Sell"
    ELSE "Strong Sell"

recommendation_of(upside) ==
    IF VLt(VFromInt(20), upside) THEN "Strong Buy"
    ELSE IF VLt(VFromInt(10), upside) THEN "Buy"
    ELSE IF VLt(VFromInt(-10), upside) THEN "Hold"
    ELSE IF VLt(VFromInt(-20), upside) THEN "Sell"
    ELSE "Strong Sell"

\* the (name, value) pairs of the methods that returned their value
collect_valuations(results) ==
    (IF "dcf" \in DOMAIN results
       THEN IF "intrinsic_value" \in DOMAIN results["dcf"]
              THEN <<<<"DCF", results["dcf"].intrinsic_value>>>> ELSE <<>>
       ELSE <<>>)
    \o (IF "relative" \in DOMAIN results
          THEN IF "average_value" \in DOMAIN results["relative"]
                 THEN <<<<"Relative", results["relative"].average_value>>>> ELSE <<>>
          ELSE <<>>)
    \o (IF "ddm" \in DOMAIN results
          THEN IF "intrinsic_value" \in DOMAIN results["ddm"]
                 THEN <<<<"DDM", results["ddm"].intrinsic_value>>>> ELSE <<>>
          ELSE <<>>)

\* every collected value, the non-positive ones too
all_values(valuations) == [i \in DOMAIN valuations |-> valuations[i][2]]

summary_record(valuations, avg_intrinsic, median_intrinsic, current_price, upside, confidence) ==
    [valuations |-> valuations,
     average_intrinsic_value |-> avg_intrinsic,
     median_intrinsic_value |-> median_intrinsic,
     current_price |-> current_price,
     upside_potential |-> IF current_price.n > 0 /\ VSign(avg_intrinsic) > 0 THEN upside
                          ELSE VZero,
     recommendation |-> IF current_price.n > 0 /\ VSign(avg_intrinsic) > 0
                          THEN recommendation_of(upside)
                        ELSE "Insufficient Data",
     confidence |-> confidence]

summary_of_values(valuations, values, current_price, confidence) ==
    summary_record(valuations, mean_or_zero(values), median_or_zero(values), current_price,
                   percent_vs_price([intrinsic_value |-> mean_or_zero(values)], current_price),
                   confidence)

\* the average taken over every collected value
_create_valuation_summary_all(d, results) ==
    LET valuations == collect_valuations(results)
    IN IF valuations = <<>> THEN [error |-> "No valid valuations available"]
       ELSE summary_of_values(valuations, all_values(valuations),
                              DataGet(d, "current_price", QInt(0)),
                              _calculate_confidence(d, results))

_create_valuation_summary(d, results) ==
    LET valuations == collect_valuations(results)
    IN IF valuations = <<>> THEN [error |-> "No valid valuations available"]
       ELSE summary_of_values(valuations,
                              positive_values(all_values(valuations), Len(valuations)),
                              DataGet(d, "current_price", QInt(0)),
                              _calculate_confidence(d, results))

DcfParamKeys == {"growth_rate", "wacc", "terminal_growth", "years"}

\* dcf_valuation(**dcf_params): years is optional
dcf_valuation_kw(d, dcf_params) ==
    dcf_valuation(d, dcf_params.growth_rate, dcf_params.wacc, dcf_params.terminal_growth,
                  IF "years" \in DOMAIN dcf_params THEN dcf_params.years ELSE DefaultYears)

comprehensive_results(d, dcf, relative, ddm, asset_based, metrics) ==
    LET results == [dcf |-> dcf, relative |-> relative, ddm |-> ddm,
                    asset_based |-> asset_based, risk_metrics |-> metrics]
    IN Return([dcf |-> dcf, relative |-> relative, ddm |-> ddm,
               asset_based |-> asset_based, risk_metrics |-> metrics,
               summary |-> _create_valuation_summary(d, results)])

\* the whole call given up when the DCF method fails
comprehensive_valuation_abort(d, dcf_params, sector_multiples) ==
    IF "error" \in DOMAIN dcf_valuation_kw(d, dcf_params)
      THEN Return([error |-> dcf_valuation_kw(d, dcf_params).error])
    ELSE comprehensive_results(d, dcf_valuation_kw(d, dcf_params),
                               relative_valuation(d, sector_multiples),
                               dividend_discount_model(d, DefaultDividendGrowth,
                                                       DefaultRequiredReturn),
                               asset_based_valuation(d), risk_metrics(d))

comprehensive_valuation(d, dcf_params, sector_multiples) ==
    IF ~({"growth_rate", "wacc", "terminal_growth"} \subseteq DOMAIN dcf_params
         /\ DOMAIN dcf_params \subseteq DcfParamKeys)
      THEN Return([error |-> "dcf_valuation() got unexpected or missing arguments"])
    ELSE comprehensive_results(d, dcf_valuation_kw(d, dcf_params),
                               relative_valuation(d, sector_multiples),
                               dividend_discount_model(d, DefaultDividendGrowth,
                                                       DefaultRequiredReturn),
                               asset_based_valuation(d), risk_metrics(d))

\* ------------------------------------------------------------------------
\* utils/preprocess.py and utils/data_collection.py
\* ------------------------------------------------------------------------

\* the values of a fetched record: None, the float NaN, a number, a string
PyNone == [kind |-> "none"]
PyNaN == [kind |-> "nan"]
PyNum(v) == [kind |-> "num", v |-> v]
PyStr(v) == [kind |-> "str", s |-> v]

\* the loop of clean_data over the items
clean_value(value) ==
    IF value = PyNone THEN PyNum(0)
    ELSE IF value = PyNaN THEN PyNum(0)
    ELSE value

clean_items(data_dict) == [key \in DOMAIN data_dict |-> clean_value(data_dict[key])]

\* clean.get("shares_outstanding", 0)
clean_get_shares(clean) ==
    IF "shares_outstanding" \in DOMAIN clean THEN clean["shares_outstanding"] ELSE PyNum(0)

\* the repair of a zero share count only below zero
clean_repair_lt(clean, shares) ==
    IF shares.kind = "str"
      THEN Raise("TypeError", "'<=' not supported between instances of 'str' and 'int'")
    ELSE IF shares.v < 0
      THEN Return([key \in DOMAIN clean \cup {"shares_outstanding"} |->
                      IF key = "shares_outstanding" THEN PyNum(1) ELSE clean[key]])
    ELSE Return(clean)

\* if clean.get("shares_outstanding", 0) <= 0: clean["shares_outstanding"] = 1
clean_repair(clean, shares) ==
    IF shares.kind = "str"
      THEN Raise("TypeError", "'<=' not supported between instances of 'str' and 'int'")
    ELSE IF shares.v <= 0
      THEN Return([key \in DOMAIN clean \cup {"shares_outstanding"} |->
                      IF key = "shares_outstanding" THEN PyNum(1) ELSE clean[key]])
    ELSE Return(clean)

clean_of(clean) == clean_repair(clean, clean_get_shares(clean))

clean_data(data_dict) == clean_of(clean_items(data_dict))

operating_cf_fields ==
    <<"Total Cash From Operating Activities", "Operating Cash Flow",
      "Cash Flow From Operations", "Net Cash From Operating Activities">>

capex_fields ==
    <<"Capital Expenditures", "Capital Expenditure", "Capex",
      "Cash Flow From Investing Activities">>

\* a cash-flow statement: the number of its columns and, per row label, the value of
\* the first column

\* the first field of the list that is a row of the statement gives the value, 0 if
\* there is none
first_field(cashflow, fields) ==
    LET found == SelectSeq(fields, LAMBDA f : f \in DOMAIN cashflow.first)
    IN IF found = <<>> THEN PyNum(0) ELSE cashflow.first[Head(found)]

\* fcf = operating_cf + capex if capex < 0 else operating_cf - abs(capex); NaN gives 0
fcf_of(operating_cf, capex) ==
    IF operating_cf = PyNaN \/ capex = PyNaN THEN 0
    ELSE IF capex.v < 0 THEN operating_cf.v + capex.v
    ELSE operating_cf.v - Abs(capex.v)

calculate_free_cash_flow(cashflow) ==
    IF cashflow.columns = 0 \/ DOMAIN cashflow.first = {} THEN Return(0)
    ELSE Return(fcf_of(first_field(cashflow, operating_cf_fields),
                       first_field(cashflow, capex_fields)))

\* ------------------------------------------------------------------------
\* The inputs the calls are tried on.
\* ------------------------------------------------------------------------

MaxYears == 3

FcfInputs == {QInt(-100), QInt(0), QInt(100)}
GrowthInputs == {Rat(-51, 100), Rat(-1, 2), Rat(1, 10), Rat(1, 1), Rat(101, 100)}
WaccInputs == {Rat(1, 200), Rat(1, 100), Rat(3, 100), Rat(1, 10), Rat(1, 2), Rat(51, 100)}
TerminalInputs ==
    {Rat(-11, 100), Rat(-1, 10), QInt(0), Rat(3, 100), Rat(19, 200), Rat(1, 10),
     Rat(15, 100), Rat(4, 25)}
SharesInputs == {QInt(-1), QInt(0), QInt(2)}
YearsInputs == -1..MaxYears
FcfListValues == {-1, 0, 2}
FcfLists == UNION {[1..n -> FcfListValues] : n \in 0..MaxYears}

MaxGrid == 2

GridWaccs == {Rat(3, 100), Rat(8, 100), Rat(12, 100)}
GridTerminals == {Rat(2, 100), Rat(3, 100), Rat(8, 100)}
WaccRanges == UNION {[1..n -> GridWaccs] : n \in 1..MaxGrid}
TerminalRanges == UNION {[1..n -> GridTerminals] : n \in 1..MaxGrid}

VARIABLES
    op,      \* the operation called last
    args,    \* its arguments
    result,  \* its outcome: Return(value) or Raise(type, message)
    data     \* the financial snapshot an analyzer holds (company_data)

vars == <<op, args, result, data>>

NoData == [ticker |-> "none"]

Init == op = "idle" /\ args = <<>> /\ result = <<>> /\ data = NoData

\* the caller takes the outcome; the next call can be made
Idle ==
    /\ op # "idle"
    /\ op' = "idle" /\ args' = <<>> /\ result' = <<>>
    /\ UNCHANGED data

ValidateInputs ==
    /\ op = "idle"
    /\ \E b \in FcfInputs, g \in GrowthInputs, w \in WaccInputs, t \in TerminalInputs,
       s \in SharesInputs :
        /\ op' = "validate_inputs"
        /\ args' = [base_fcf |-> b, growth_rate |-> g, wacc |-> w, terminal_growth |-> t,
                    shares_outstanding |-> s]
        /\ result' = validate_inputs(VFromQ(b), g, w, t, s)
        /\ UNCHANGED data

ProjectFcf ==
    /\ op = "idle"
    /\ \E b \in FcfInputs, g \in GrowthInputs, y \in YearsInputs :
        /\ op' = "project_fcf"
        /\ args' = [base_fcf |-> b, growth_rate |-> g, years |-> y]
        /\ result' = project_fcf(b, g, y)
        /\ UNCHANGED data

CalculateDcf ==
    /\ op = "idle"
    /\ \E l \in FcfLists, w \in WaccInputs, t \in TerminalInputs, s \in SharesInputs :
        /\ op' = "calculate_dcf"
        /\ args' = [fcf_list |-> [i \in 1..Len(l) |-> VFromInt(l[i])], wacc |-> w,
                    terminal_growth |-> t, shares_outstanding |-> s]
        /\ result' = calculate_dcf(args'.fcf_list, w, t, s)
        /\ UNCHANGED data

DcfPipeline ==
    /\ op = "idle"
    /\ \E b \in FcfInputs, g \in GrowthInputs, y \in YearsInputs, w \in WaccInputs,
       t \in TerminalInputs, s \in SharesInputs :
        /\ op' = "dcf_pipeline"
        /\ args' = [base_fcf |-> b, growth_rate |-> g, years |-> y, wacc |-> w,
                    terminal_growth |-> t, shares_outstanding |-> s]
        /\ result' = dcf_pipeline(b, g, y, w, t, s)
        /\ UNCHANGED data

GenerateSensitivityMatrix ==
    /\ op = "idle"
    /\ \E b \in FcfInputs, s \in SharesInputs, g \in GrowthInputs, ws \in WaccRanges,
          ts \in TerminalRanges :
        /\ op' = "generate_sensitivity_matrix"
        /\ args' = [base_fcf |-> b, shares |-> s, growth_rate |-> g, wacc_range |-> ws,
                    terminal_growth_range |-> ts]
        /\ result' = generate_sensitivity_matrix(b, s, g, ws, ts)
        /\ UNCHANGED data

Next ==
    \/ ValidateInputs
    \/ ProjectFcf
    \/ CalculateDcf
    \/ DcfPipeline
    \/ GenerateSensitivityMatrix
    \/ Idle

Spec == Init /\ [][Next]_vars

\* ------------------------------------------------------------------------
\* The RiskAnalyzer: an analyzer is constructed on a company snapshot and its
\* methods are called on it.
\* ------------------------------------------------------------------------

MaxSimulations == 2

SnapshotFcf == {QInt(0), QInt(100)}
SnapshotShares == {QInt(0), QInt(2)}
SnapshotPrices == {QInt(-5), QInt(0), QInt(50), QInt(1000)}

\* company_data, with and without the optional current_price
Snapshots ==
    {[fcf |-> f, shares_outstanding |-> s, current_price |-> p] :
        f \in SnapshotFcf, s \in SnapshotShares, p \in SnapshotPrices}
    \cup {[fcf |-> f, shares_outstanding |-> s] : f \in SnapshotFcf, s \in SnapshotShares}

BaseGrowths == {Rat(-1, 2), Rat(1, 10), Rat(1, 1), Rat(6, 5)}
BaseWaccs == {Rat(1, 100), Rat(1, 10), Rat(31, 200), Rat(1, 2), Rat(3, 5)}
BaseTerminals ==
    {Rat(-1, 10), Rat(0, 1), Rat(1, 200), Rat(17, 200), Rat(9, 100), Rat(19, 200),
     Rat(15, 100), Rat(1, 5)}
BaseParams ==
    {[growth |-> g, wacc |-> w, terminal |-> t] :
        g \in BaseGrowths, w \in BaseWaccs, t \in BaseTerminals}

McBaseFcf == {QInt(0), QInt(100)}
McGrowthParams ==
    {[mean |-> Rat(1, 10), std |-> Rat(0, 1)], [mean |-> Rat(1, 10), std |-> Rat(1, 20)],
     [mean |-> Rat(1, 1), std |-> Rat(0, 1)]}
McWaccParams ==
    {[mean |-> Rat(1, 10), std |-> Rat(0, 1)], [mean |-> Rat(1, 10), std |-> Rat(1, 50)],
     [mean |-> Rat(1, 100), std |-> Rat(0, 1)]}
McTerminalParams ==
    {[mean |-> Rat(3, 100), std |-> Rat(0, 1)], [mean |-> Rat(3, 100), std |-> Rat(1, 25)],
     [mean |-> Rat(15, 100), std |-> Rat(0, 1)]}
\* what the random generator may deliver for one trial, in standard deviations
McDraws ==
    {<<QInt(0), QInt(0), QInt(0)>>, <<QInt(2), QInt(-2), QInt(2)>>,
     <<QInt(-2), QInt(2), QInt(-2)>>}

InitRisk == op = "idle" /\ args = <<>> /\ result = <<>> /\ data \in Snapshots

MonteCarloSimulation ==
    /\ op = "idle"
    /\ \E b \in McBaseFcf, gp \in McGrowthParams, wp \in McWaccParams,
          tp \in McTerminalParams, n \in 0..MaxSimulations :
        \E draws \in [1..n -> McDraws] :
            /\ op' = "monte_carlo_simulation"
            /\ args' = [base_fcf |-> b, growth_params |-> gp, wacc_params |-> wp,
                        terminal_params |-> tp, simulations |-> n, draws |-> draws]
            /\ result' = monte_carlo_simulation(data, b, gp, wp, tp, n, draws)
            /\ UNCHANGED data

ScenarioAnalysis ==
    /\ op = "idle"
    /\ \E base_params \in BaseParams :
        /\ op' = "scenario_analysis"
        /\ args' = [base_params |-> base_params]
        /\ result' = scenario_analysis(data, base_params)
        /\ UNCHANGED data

StressTesting ==
    /\ op = "idle"
    /\ \E base_params \in BaseParams :
        /\ op' = "stress_testing"
        /\ args' = [base_params |-> base_params]
        /\ result' = stress_testing(data, base_params)
        /\ UNCHANGED data

\* entries as _assess_stress_resilience reads them: failed, or with a downside
DownsideInputs == {-41, -40, -39, -21, -20, -19, 0}
AssessEntries ==
    {[error |-> "failed"]} \cup {[downside_from_current |-> VFromInt(x)] : x \in DownsideInputs}
AssessNames == <<"recession", "market_crash">>

AssessStressResilience ==
    /\ op = "idle"
    /\ \E stress_results \in [{"recession", "market_crash"} -> AssessEntries] :
        /\ op' = "_assess_stress_resilience"
        /\ args' = [stress_results |-> stress_results]
        /\ result' = Return(_assess_stress_resilience(stress_results, AssessNames,
                                                      DataGet(data, "current_price", QInt(0))))
        /\ UNCHANGED data

MaxFactors == 3

FactorInputs ==
    {"High debt levels", "Negative free cash flow", "Regulatory risk", "Industry cyclicality",
     "Management risk"}
FactorLists == UNION {[1..n -> FactorInputs] : n \in 0..MaxFactors}
BaseValuations == {QInt(-100), QInt(0), QInt(100)}

RiskAdjustedValuation ==
    /\ op = "idle"
    /\ \E base_valuation \in BaseValuations, risk_factors \in FactorLists :
        /\ op' = "risk_adjusted_valuation"
        /\ args' = [base_valuation |-> base_valuation, risk_factors |-> risk_factors]
        /\ result' = risk_adjusted_valuation(VFromQ(base_valuation), risk_factors)
        /\ UNCHANGED data

\* tests/test_valuex.py: risk_analyzer.risk_metrics()
AnalyzerRiskMetrics ==
    /\ op = "idle"
    /\ op' = "risk_metrics"
    /\ args' = <<>>
    /\ result' = analyzer_risk_metrics
    /\ UNCHANGED data

RunGrowths == {Rat(1, 10)}
RunWaccs == {Rat(12, 100), Rat(3, 5)}
RunTerminals == {Rat(3, 100)}

MaxSweep == 2
SweepValues == {Rat(2, 100), Rat(8, 100), Rat(15, 100)}
SweepSeqs ==
    {q \in UNION {[1..n -> SweepValues] : n \in 0..MaxSweep} :
        \A i, j \in DOMAIN q : q[i] = q[j] => i = j}
ParamRangesInputs ==
    {NoneValue} \cup {[wacc |-> q] : q \in SweepSeqs} \cup {[growth |-> q] : q \in SweepSeqs}
    \cup {[wacc |-> <<Rat(2, 100)>>, growth |-> <<Rat(8, 100), Rat(15, 100)>>]}
\* no value of the default sweeps of these meets wacc = terminal, where the rounding of
\* np.linspace would decide
SweepBaseParams ==
    {[growth |-> Rat(1, 10), wacc |-> Rat(12, 100), terminal |-> Rat(3, 100)],
     [growth |-> Rat(1, 10), wacc |-> Rat(10, 100), terminal |-> Rat(13, 100)],
     [growth |-> Rat(1, 10), wacc |-> Rat(10, 100), terminal |-> Rat(59, 500)]}

\* args.base_params is the record the caller passes, args.base_params_after the same
\* record as the caller finds it when the call has returned
SensitivityAnalysisDetailed ==
    /\ op = "idle"
    /\ \E base_params \in SweepBaseParams, param_ranges \in ParamRangesInputs :
        \E call \in {sensitivity_call(data, base_params, param_ranges)} :
            /\ op' = "sensitivity_analysis_detailed"
            /\ args' = [base_params |-> base_params, param_ranges |-> param_ranges,
                        base_params_after |-> call.base_params]
            /\ result' = call.outcome
            /\ UNCHANGED data

RunRiskAnalysis ==
    /\ op = "idle"
    /\ \E growth \in RunGrowths, wacc \in RunWaccs, terminal \in RunTerminals,
          monte_carlo \in BOOLEAN, simulations \in 0..MaxSimulations :
        \E draws \in [1..simulations -> McDraws] :
            /\ op' = "_run_risk_analysis"
            /\ args' = [growth |-> growth, wacc |-> wacc, terminal |-> terminal,
                        monte_carlo |-> monte_carlo, simulations |-> simulations,
                        draws |-> draws]
            /\ result' = run_risk_analysis(data, growth, wacc, terminal, monte_carlo,
                                           simulations, draws)
            /\ UNCHANGED data

NextRisk ==
    \/ AnalyzerRiskMetrics
    \/ RunRiskAnalysis
    \/ MonteCarloSimulation
    \/ RiskAdjustedValuation
    \/ ScenarioAnalysis
    \/ StressTesting
    \/ SensitivityAnalysisDetailed
    \/ AssessStressResilience
    \/ Idle

SpecRisk == InitRisk /\ [][NextRisk]_vars

\* ------------------------------------------------------------------------
\* The ValuationSuite: a suite is constructed on a company snapshot and its methods
\* are called on it.
\* ------------------------------------------------------------------------

SuiteFcf == {QInt(0), QInt(100)}
SuiteShares == {QInt(-1), QInt(0), QInt(2)}
SuitePrices == {QInt(0), QInt(50)}
SuiteRevenues == {QInt(0), QInt(1000)}
SuiteDebts == {QInt(0), QInt(5000)}
SuiteMarketCap == QInt(1000)

\* volatility and beta on, above and below the thresholds of the risk level
VolatilityBeta ==
    {<<Rat(25, 100), Rat(12, 10)>>, <<Rat(26, 100), Rat(1, 1)>>, <<Rat(25, 100), Rat(121, 100)>>,
     <<Rat(4, 10), Rat(15, 10)>>, <<Rat(41, 100), Rat(1, 1)>>, <<Rat(1, 10), Rat(151, 100)>>,
     <<Rat(1, 10), Rat(1, 2)>>}

SuiteStandard ==
    [fcf |-> QInt(100), shares_outstanding |-> QInt(2), current_price |-> QInt(50),
     revenue |-> QInt(1000), total_debt |-> QInt(0), market_cap |-> SuiteMarketCap]

\* company_data: the financial fields varied, then the optional volatility, beta and
\* data_quality on a standard company
SuiteSnapshots ==
    {[fcf |-> f, shares_outstanding |-> sh, current_price |-> p, revenue |-> r,
      total_debt |-> t, market_cap |-> SuiteMarketCap] :
        f \in SuiteFcf, sh \in SuiteShares, p \in SuitePrices, r \in SuiteRevenues,
        t \in SuiteDebts}
    \cup {[k \in DOMAIN SuiteStandard \cup {"volatility", "beta"} |->
              IF k = "volatility" THEN vb[1] ELSE IF k = "beta" THEN vb[2]
              ELSE SuiteStandard[k]] : vb \in VolatilityBeta}
    \cup {[k \in DOMAIN SuiteStandard \cup {"volatility"} |->
              IF k = "volatility" THEN Rat(41, 100) ELSE SuiteStandard[k]]}
    \cup {[k \in DOMAIN SuiteStandard \cup {"data_quality"} |->
              IF k = "data_quality" THEN q ELSE SuiteStandard[k]] : q \in {"Good", "Fair"}}

DcfParamsInputs ==
    {[growth_rate |-> Rat(1, 10), wacc |-> Rat(12, 100), terminal_growth |-> Rat(3, 100)],
     [growth_rate |-> Rat(1, 10), wacc |-> Rat(3, 100), terminal_growth |-> Rat(3, 100)],
     [growth_rate |-> Rat(1, 10), wacc |-> Rat(12, 100), terminal_growth |-> Rat(3, 100),
      years |-> 2],
     [growth_rate |-> Rat(1, 10), terminal_growth |-> Rat(3, 100)]}

SectorMultiplesInputs ==
    {NoneValue,
     [pe_ratio |-> Rat(20, 1), ev_ebitda |-> Rat(8, 1), price_sales |-> Rat(1, 1),
      price_book |-> Rat(1, 1)]}

\* method entries as _create_valuation_summary reads them
SummaryDcfValues == {-10, 0, 40, 41, 45, 46, 55, 56, 60, 61}
SummaryOtherValues == {-10, 0, 60}
SummaryDcfEntries ==
    {method_error("DCF", "failed")}
    \cup {[method |-> "DCF", intrinsic_value |-> VFromInt(x)] : x \in SummaryDcfValues}
SummaryRelativeEntries ==
    {method_error("Relative Valuation", "failed")}
    \cup {[method |-> "Relative Valuation", average_value |-> VFromInt(x)] :
            x \in SummaryOtherValues}
SummaryDdmEntries ==
    {method_error("Dividend Discount Model", "failed")}
    \cup {[method |-> "Dividend Discount Model", intrinsic_value |-> VFromInt(x)] :
            x \in SummaryOtherValues}

InitSuite == op = "idle" /\ args = <<>> /\ result = <<>> /\ data \in SuiteSnapshots

SuiteRiskMetrics ==
    /\ op = "idle"
    /\ op' = "risk_metrics"
    /\ args' = <<>>
    /\ result' = Return(risk_metrics(data))
    /\ UNCHANGED data

CreateValuationSummary ==
    /\ op = "idle"
    /\ \E dcf \in SummaryDcfEntries, relative \in SummaryRelativeEntries,
          ddm \in SummaryDdmEntries :
        /\ op' = "_create_valuation_summary"
        /\ args' = [results |-> [dcf |-> dcf, relative |-> relative, ddm |-> ddm,
                                 risk_metrics |-> risk_metrics(data)]]
        /\ result' = Return(_create_valuation_summary(data, args'.results))
        /\ UNCHANGED data

ComprehensiveValuation ==
    /\ op = "idle"
    /\ \E dcf_params \in DcfParamsInputs, sector_multiples \in SectorMultiplesInputs :
        /\ op' = "comprehensive_valuation"
        /\ args' = [dcf_params |-> dcf_params, sector_multiples |-> sector_multiples]
        /\ result' = comprehensive_valuation(data, dcf_params, sector_multiples)
        /\ UNCHANGED data

NextSuite ==
    \/ SuiteRiskMetrics
    \/ CreateValuationSummary
    \/ ComprehensiveValuation
    \/ Idle

SpecSuite == InitSuite /\ [][NextSuite]_vars

\* ------------------------------------------------------------------------
\* The data utilities: clean_data and calculate_free_cash_flow.
\* ------------------------------------------------------------------------

CleanKeys == {"fcf", "shares_outstanding", "ticker"}
CleanValues == {PyNone, PyNaN, PyNum(-1), PyNum(0), PyNum(2), PyStr("T")}
CleanInputs == UNION {[keys -> CleanValues] : keys \in SUBSET CleanKeys}

CashRows ==
    {"Total Cash From Operating Activities", "Operating Cash Flow",
     "Capital Expenditures", "Cash Flow From Investing Activities"}
CashValues == {PyNaN, PyNum(-20), PyNum(0), PyNum(150)}
CashFlows ==
    {[columns |-> 1, first |-> f] : f \in UNION {[rows -> CashValues] : rows \in SUBSET CashRows}}
    \cup {[columns |-> 0, first |-> [r \in {"Capital Expenditures"} |-> PyNaN]]}

CleanData ==
    /\ op = "idle"
    /\ \E data_dict \in CleanInputs :
        /\ op' = "clean_data"
        /\ args' = [data_dict |-> data_dict]
        /\ result' = clean_data(data_dict)
        /\ UNCHANGED data

CalculateFreeCashFlow ==
    /\ op = "idle"
    /\ \E cashflow \in CashFlows :
        /\ op' = "calculate_free_cash_flow"
        /\ args' = [cashflow |-> cashflow]
        /\ result' = calculate_free_cash_flow(cashflow)
        /\ UNCHANGED data

NextData ==
    \/ CleanData
    \/ CalculateFreeCashFlow
    \/ Idle

SpecData == Init /\ [][NextData]_vars

\* ------------------------------------------------------------------------
\* Claims about the DCF engine and the sensitivity matrix, under Spec.
\* ------------------------------------------------------------------------

Outside(x, lo, hi) == QLt(x, lo) \/ QLt(hi, x)

\* C1: validate_inputs raises ValueError if and only if base_fcf <= 0, or growth is
\* outside [-0.5, 1.0], or wacc is outside [0.01, 0.50], or terminal growth is
\* outside [-0.10, 0.15], or wacc <= terminal growth, or shares <= 0; otherwise it
\* returns True; the call changes nothing else (the snapshot is left as it was).
C1_ValidateIff ==
    /\ [](op = "validate_inputs" =>
            LET bad == \/ args.base_fcf.n <= 0
                       \/ Outside(args.growth_rate, Rat(-1, 2), Rat(1, 1))
                       \/ Outside(args.wacc, Rat(1, 100), Rat(1, 2))
                       \/ Outside(args.terminal_growth, Rat(-1, 10), Rat(15, 100))
                       \/ QLe(args.wacc, args.terminal_growth)
                       \/ args.shares_outstanding.n <= 0
            IN IF bad THEN result.exc = "ValueError" ELSE result = Return(TRUE))
    /\ [][op' = "validate_inputs" => data' = data]_vars

C1_Witness ==
    /\ op = "validate_inputs"
    /\ args.base_fcf.n > 0 /\ args.shares_outstanding.n > 0
    /\ args.growth_rate = Rat(1, 1)
    /\ args.wacc = Rat(1, 10) /\ args.terminal_growth = Rat(1, 10)
    /\ result.exc = "ValueError"

C3_DcfRecord ==
    (op = "calculate_dcf" /\ ~Raised(result)) =>
        LET r == result.value
            f == args.fcf_list
            n == Len(f)
            disc == QAdd(QInt(1), args.wacc)
        IN /\ n >= 1 /\ Len(r.discounted_fcf) = n
           /\ QLt(args.terminal_growth, args.wacc)
           /\ \A i \in 1..n : VEq(VMulQPow(r.discounted_fcf[i], disc, i), f[i])
           /\ VEq(r.pv_explicit_fcf, VSum(r.discounted_fcf))
           /\ VEq(VMulQ(r.terminal_value, QSub(args.wacc, args.terminal_growth)),
                  VMulQ(f[n], QAdd(QInt(1), args.terminal_growth)))
           /\ VEq(VMulQPow(r.discounted_terminal, disc, n), r.terminal_value)
           /\ VEq(r.enterprise_value, VAdd(r.pv_explicit_fcf, r.discounted_terminal))
           /\ VEq(VMulQ(r.intrinsic_value, args.shares_outstanding), r.enterprise_value)

C3_Witness ==
    /\ op = "calculate_dcf" /\ ~Raised(result)
    /\ Len(args.fcf_list) = MaxYears
    /\ VSign(args.fcf_list[MaxYears]) < 0
    /\ VSign(result.value.terminal_value) < 0

\* C4: calculate_dcf called with wacc equal to terminal growth always raises
\* ValueError and never returns a record, directly or after project_fcf.
C4_EqualRatesRaise ==
    (op \in {"calculate_dcf", "dcf_pipeline"} /\ args.wacc = args.terminal_growth) =>
        result.exc = "ValueError"

C4_Witness ==
    /\ op = "calculate_dcf"
    /\ args.wacc = Rat(3, 100) /\ args.terminal_growth = Rat(3, 100)
    /\ Len(args.fcf_list) >= 1 /\ VSign(args.fcf_list[1]) > 0
    /\ args.shares_outstanding.n > 0
    /\ result.exc = "ValueError"

\* C5 (the claim as stated): generate_sensitivity_matrix, on valid base_fcf, shares and
\* growth and ranges in which every wacc is at least every terminal growth and some
\* wacc equals some terminal growth, does not raise; the cells with wacc = terminal
\* growth are None and all others are computed.
C5_NullCellNoRaise ==
    (/\ op = "generate_sensitivity_matrix"
     /\ args.base_fcf.n > 0 /\ args.shares.n > 0
     /\ ~Outside(args.growth_rate, Rat(-1, 2), Rat(1, 1))
     /\ \A i \in DOMAIN args.wacc_range, j \in DOMAIN args.terminal_growth_range :
            QLe(args.terminal_growth_range[j], args.wacc_range[i])
     /\ \E i \in DOMAIN args.wacc_range, j \in DOMAIN args.terminal_growth_range :
            args.terminal_growth_range[j] = args.wacc_range[i])
    => /\ ~Raised(result)
       /\ \A e \in DOMAIN result.value :
            \A j \in DOMAIN args.terminal_growth_range :
                \A i \in DOMAIN args.wacc_range :
                    result.value[e].key = PyRound(VMulQ(VFromQ(args.wacc_range[i]), QInt(100)), 1)
                    => ((result.value[e].row[j] = NoneValue)
                            <=> (args.terminal_growth_range[j] = args.wacc_range[i]))

\* ------------------------------------------------------------------------
\* Claims about the RiskAnalyzer, under SpecRisk.
\* ------------------------------------------------------------------------

\* the parameters pass validate_inputs
ValidRates(g, w, t) ==
    /\ ~Outside(g, GrowthMin, GrowthMax)
    /\ ~Outside(w, WaccMin, WaccMax)
    /\ ~Outside(t, TerminalMin, TerminalMax)
    /\ QLt(t, w)

\* C6: scenario_analysis on a snapshot with fcf > 0 and shares > 0, for base parameters
\* that pass validation, whatever the positive gap wacc - terminal: the bull intrinsic
\* value is at least the base one, which is at least the bear one.
C6_BullBaseBear ==
    (/\ op = "scenario_analysis"
     /\ data.fcf.n > 0 /\ data.shares_outstanding.n > 0
     /\ ValidRates(args.base_params.growth, args.base_params.wacc,
                   args.base_params.terminal)) =>
        /\ ~Raised(result)
        /\ "scenarios" \in DOMAIN result.value
        /\ \A name \in {"bear", "base", "bull"} :
              "intrinsic_value" \in DOMAIN result.value.scenarios[name]
        /\ VLe(result.value.scenarios["base"].intrinsic_value,
               result.value.scenarios["bull"].intrinsic_value)
        /\ VLe(result.value.scenarios["bear"].intrinsic_value,
               result.value.scenarios["base"].intrinsic_value)

\* the three standard deviations are 0 and the means pass validation
C7_Degenerate ==
    /\ op = "monte_carlo_simulation"
    /\ args.simulations >= 1
    /\ args.growth_params.std.n = 0 /\ args.wacc_params.std.n = 0
    /\ args.terminal_params.std.n = 0
    /\ ValidRates(args.growth_params.mean, args.wacc_params.mean, args.terminal_params.mean)

\* C7: monte_carlo_simulation with the three standard deviations 0, means that pass
\* validation and N >= 1 simulations: every surviving trial's intrinsic value is that of
\* project_fcf(base_fcf, growth mean, 5) then calculate_dcf(wacc mean, terminal mean,
\* shares), and so are the mean, the median, the minimum, the maximum and the 5th, 25th,
\* 75th and 95th percentiles.
C7_ZeroStdCollapses ==
    C7_Degenerate =>
        LET det == dcf_pipeline(args.base_fcf, args.growth_params.mean, ProjectionYears,
                                args.wacc_params.mean, args.terminal_params.mean,
                                data.shares_outstanding)
            r == result.value
        IN /\ ~Raised(result)
           /\ Raised(det) <=> "error" \in DOMAIN r
           /\ ~Raised(det) =>
                /\ r.simulation_count = args.simulations
                /\ \A i \in DOMAIN r.detailed_results :
                      VEq(r.detailed_results[i].intrinsic_value, det.value.intrinsic_value)
                /\ VEq(r.mean_value, det.value.intrinsic_value)
                /\ VEq(r.median_value, det.value.intrinsic_value)
                /\ VEq(r.min_value, det.value.intrinsic_value)
                /\ VEq(r.max_value, det.value.intrinsic_value)
                /\ \A q \in {5, 25, 75, 95} :
                      VEq(r.percentiles[q], det.value.intrinsic_value)

C7_Witness ==
    /\ C7_Degenerate
    /\ args.simulations = MaxSimulations
    /\ args.growth_params.mean = Rat(1, 1)
    /\ "mean_value" \in DOMAIN result.value
    /\ VSign(result.value.mean_value) > 0
    /\ Len(result.value.detailed_results) = MaxSimulations

\* C8: monte_carlo_simulation reports 'No valid simulation results', and no statistics,
\* exactly when no trial survives, which is when base_fcf <= 0, shares <= 0 or
\* simulations = 0; otherwise it returns the statistics of the survivors, and it never
\* raises.
C8_NoValidIffNoSurvivor ==
    op = "monte_carlo_simulation" =>
        LET noSurvivor == \/ args.simulations = 0
                          \/ args.base_fcf.n <= 0
                          \/ data.shares_outstanding.n <= 0
        IN /\ ~Raised(result)
           /\ noSurvivor <=> result.value = [error |-> "No valid simulation results"]
           /\ ~noSurvivor =>
                /\ "error" \notin DOMAIN result.value
                /\ result.value.simulation_count = args.simulations
                /\ Len(result.value.detailed_results) = args.simulations

C8_Witness ==
    /\ op = "monte_carlo_simulation"
    /\ args.simulations = MaxSimulations
    /\ args.base_fcf.n <= 0
    /\ data.shares_outstanding.n > 0
    /\ result.value = [error |-> "No valid simulation results"]

\* C11: stress_testing on a snapshot with fcf > 0 and shares > 0, for any base
\* parameters (also out of bounds, or with wacc <= terminal): the call returns no
\* failure and each of the four stress scenarios carries an intrinsic value, not an
\* error marker.
C11_StressNeverFails ==
    (/\ op = "stress_testing"
     /\ data.fcf.n > 0 /\ data.shares_outstanding.n > 0) =>
        /\ ~Raised(result)
        /\ "stress_scenarios" \in DOMAIN result.value
        /\ \A i \in DOMAIN StressNames :
              "intrinsic_value" \in DOMAIN result.value.stress_scenarios[StressNames[i]]

\* the label of a maximum downside
C12_Label(x) ==
    IF VSign(VSub(x, VFromInt(-20))) > 0 THEN "High Resilience"
    ELSE IF VSign(VSub(x, VFromInt(-40))) > 0 THEN "Medium Resilience"
    ELSE "Low Resilience"

\* x is the least of the values key of the entries of results that have it
C12_Least(x, results, key) ==
    /\ \E n \in DOMAIN results : key \in DOMAIN results[n] /\ VEq(x, results[n][key])
    /\ \A n \in DOMAIN results : key \in DOMAIN results[n] => VLe(x, results[n][key])

\* C12: the resilience label of stress_testing is that of the maximum downside, the most
\* negative downside from the current price over the scenarios that were computed: High
\* above -20, Medium above -40 (and at most -20), else Low; the worst-case value is the
\* least intrinsic value over those scenarios.
C12_ResilienceLabel ==
    /\ (op = "stress_testing" /\ "stress_scenarios" \in DOMAIN result.value) =>
          /\ C12_Least(result.value.worst_case_value, result.value.stress_scenarios,
                       "intrinsic_value")
          /\ C12_Least(result.value.maximum_downside, result.value.stress_scenarios,
                       "downside_from_current")
          /\ result.value.stress_resilience = C12_Label(result.value.maximum_downside)
    /\ op = "_assess_stress_resilience" =>
          \A n \in DOMAIN args.stress_results :
              (/\ "downside_from_current" \in DOMAIN args.stress_results[n]
               /\ C12_Least(args.stress_results[n].downside_from_current,
                            args.stress_results, "downside_from_current"))
                => result.value = C12_Label(args.stress_results[n].downside_from_current)

C12_Witness ==
    /\ op = "_assess_stress_resilience"
    /\ args.stress_results["recession"] = [downside_from_current |-> VFromInt(-20)]
    /\ args.stress_results["market_crash"] = [error |-> "failed"]
    /\ result.value = "Medium Resilience"

C12_WitnessStress ==
    /\ op = "stress_testing"
    /\ "stress_scenarios" \in DOMAIN result.value
    /\ result.value.stress_resilience = "Low Resilience"
    /\ VEq(result.value.worst_case_value,
           result.value.stress_scenarios["market_crash"].intrinsic_value)

\* the table percentages of the listed names, each counted as often as it is listed
RECURSIVE C13_Sum(_, _)
C13_Sum(names, listed) ==
    IF names = {} THEN Rat(0, 1)
    ELSE LET f == CHOOSE x \in names : TRUE
             times == Cardinality({i \in DOMAIN listed : listed[i] = f})
         IN QAdd(QMul(QInt(times), risk_adjustments[f]), C13_Sum(names \ {f}, listed))

\* C13: risk_adjusted_valuation(base, names): the total discount is min(0.40, the sum
\* of the table percentage of every listed name that is in the table), names outside
\* the table add nothing, so it lies in [0, 0.40]; the adjusted value is
\* base * (1 - total discount), for base >= 0 between 0.6 * base and base.
C13_DiscountCapped ==
    op = "risk_adjusted_valuation" =>
        LET r == result.value
            base == VFromQ(args.base_valuation)
        IN /\ ~Raised(result)
           /\ r.total_risk_discount
                = QMin(Rat(40, 100), C13_Sum(DOMAIN risk_adjustments, args.risk_factors))
           /\ QLe(Rat(0, 1), r.total_risk_discount)
           /\ QLe(r.total_risk_discount, Rat(40, 100))
           /\ VEq(r.risk_adjusted_valuation,
                  VSub(base, VMulQ(base, r.total_risk_discount)))
           /\ args.base_valuation.n >= 0 =>
                /\ VLe(VMulQ(base, Rat(6, 10)), r.risk_adjusted_valuation)
                /\ VLe(r.risk_adjusted_valuation, base)

C13_Witness ==
    /\ op = "risk_adjusted_valuation"
    /\ args.base_valuation.n > 0
    /\ Len(args.risk_factors) = MaxFactors
    /\ QLt(Rat(40, 100), C13_Sum(DOMAIN risk_adjustments, args.risk_factors))
    /\ result.value.total_risk_discount = Rat(40, 100)
    /\ VEq(result.value.risk_adjusted_valuation, VFromInt(60))

\* C14: risk_metrics is an operation of RiskAnalyzer: called on an analyzer built from
\* a snapshot it returns a record with risk_level, not a failure, and the risk-analysis
\* workflow that starts with this call goes on to scenario analysis and stress testing.
C14_AnalyzerRiskMetrics ==
    /\ op = "risk_metrics" =>
          /\ ~Raised(result)
          /\ "risk_level" \in DOMAIN result.value
    /\ op = "_run_risk_analysis" =>
          /\ ~Raised(result)
          /\ "error" \notin DOMAIN result.value
          /\ {"risk_metrics", "scenario_analysis", "stress_testing"} \subseteq DOMAIN result.value

\* ------------------------------------------------------------------------
\* Claims about the ValuationSuite, under SpecSuite.
\* ------------------------------------------------------------------------

\* C15: the risk level of risk_metrics is High if volatility > 0.4 or beta > 1.5,
\* otherwise Medium if volatility > 0.25 or beta > 1.2, otherwise Low; a missing
\* volatility counts as 0.25 and a missing beta as 1.0.
C15_RiskLevel ==
    op = "risk_metrics" =>
        LET vol == IF "volatility" \in DOMAIN data THEN data.volatility ELSE Rat(25, 100)
            beta == IF "beta" \in DOMAIN data THEN data.beta ELSE Rat(1, 1)
            high == vol.n * 10 > 4 * vol.d \/ beta.n * 10 > 15 * beta.d
            medium == vol.n * 100 > 25 * vol.d \/ beta.n * 10 > 12 * beta.d
        IN /\ ~Raised(result)
           /\ result.value.volatility = vol /\ result.value.beta = beta
           /\ result.value.risk_level
                = (IF high THEN "High Risk" ELSE IF medium THEN "Medium Risk" ELSE "Low Risk")
           /\ {"var_95", "sharpe_ratio", "risk_factors"} \subseteq DOMAIN result.value

C15_Witness ==
    /\ op = "risk_metrics"
    /\ "volatility" \in DOMAIN data /\ data.volatility = Rat(4, 10)
    /\ "beta" \in DOMAIN data /\ data.beta = Rat(15, 10)
    /\ result.value.risk_level = "Medium Risk"

\* the summary a call built, when it built one
C16_Summary ==
    IF op = "_create_valuation_summary" THEN result.value
    ELSE IF op = "comprehensive_valuation" /\ "summary" \in DOMAIN result.value
      THEN result.value.summary
    ELSE [error |-> "none"]

C16_Priced ==
    /\ "recommendation" \in DOMAIN C16_Summary
    /\ C16_Summary.current_price.n > 0
    /\ VSign(C16_Summary.average_intrinsic_value) > 0

\* C16: in the valuation summary, when the current price and the average intrinsic value
\* are positive, upside = (average - price) / price * 100 and the recommendation is
\* Strong Buy above 20, Buy above 10 up to 20, Hold above -10 up to 10, Sell above -20
\* up to -10, Strong Sell at -20 and below.
C16_Recommendation ==
    C16_Priced =>
        LET sm == C16_Summary
            price == VFromQ(sm.current_price)
            up == sm.upside_potential
            above(k) == VSign(VSub(up, VFromInt(k))) > 0
        IN /\ VEq(VMulQ(up, sm.current_price),
                  VMulQ(VSub(sm.average_intrinsic_value, price), QInt(100)))
           /\ sm.recommendation =
                (IF above(20) THEN "Strong Buy"
                 ELSE IF above(10) THEN "Buy"
                 ELSE IF above(-10) THEN "Hold"
                 ELSE IF above(-20) THEN "Sell"
                 ELSE "Strong Sell")

C16_Witness ==
    /\ op = "_create_valuation_summary"
    /\ C16_Priced
    /\ VEq(result.value.upside_potential, VFromInt(-20))
    /\ result.value.recommendation = "Strong Sell"

\* the methods whose entry carries its value under key
C17_Ok(results, m) ==
    (IF m = "relative" THEN "average_value" ELSE "intrinsic_value") \in DOMAIN results[m]

C17_WellFormed ==
    /\ op = "comprehensive_valuation"
    /\ {"growth_rate", "wacc", "terminal_growth"} \subseteq DOMAIN args.dcf_params

\* C17: comprehensive_valuation runs the DCF, relative, dividend discount, asset-based
\* and risk-metrics methods independently: a method that fails leaves an error-tagged
\* entry, every other entry is what that method returns, the summary is built from the
\* methods that succeeded, and the call returns no failure and a summary entry.
C17_MethodsIndependent ==
    C17_WellFormed =>
        LET r == result.value
            names == {"DCF", "Relative", "DDM"}
            key(n) == IF n = "DCF" THEN "dcf" ELSE IF n = "Relative" THEN "relative" ELSE "ddm"
        IN /\ ~Raised(result)
           /\ DOMAIN r = {"dcf", "relative", "ddm", "asset_based", "risk_metrics", "summary"}
           /\ r.dcf = dcf_valuation_kw(data, args.dcf_params)
           /\ \A m \in {"dcf", "relative", "ddm"} : ("error" \in DOMAIN r[m]) <=> ~C17_Ok(r, m)
           /\ r.relative = relative_valuation(data, args.sector_multiples)
           /\ r.ddm = dividend_discount_model(data, DefaultDividendGrowth, DefaultRequiredReturn)
           /\ r.asset_based = asset_based_valuation(data)
           /\ r.risk_metrics = risk_metrics(data)
           /\ "risk_level" \in DOMAIN r.risk_metrics
           /\ (\E n \in names : C17_Ok(r, key(n))) =>
                /\ "error" \notin DOMAIN r.summary
                /\ {r.summary.valuations[i][1] : i \in DOMAIN r.summary.valuations}
                     = {n \in names : C17_Ok(r, key(n))}

C17_Witness ==
    /\ C17_WellFormed
    /\ "error" \in DOMAIN result.value.dcf
    /\ args.dcf_params.wacc = args.dcf_params.terminal_growth
    /\ data.fcf.n > 0 /\ data.shares_outstanding.n > 0
    /\ C17_Ok(result.value, "relative") /\ C17_Ok(result.value, "ddm")
    /\ "error" \notin DOMAIN result.value.asset_based
    /\ result.value.summary.recommendation = "Strong Buy"

\* the value method m contributes to the average: its value when positive
C18_Part(results, m) ==
    IF ~C17_Ok(results, m) THEN VZero
    ELSE LET v == IF m = "relative" THEN results[m].average_value
                  ELSE results[m].intrinsic_value
         IN IF VSign(v) > 0 THEN v ELSE VZero

C18_Holds(results, sm) ==
    LET parts == [m \in {"dcf", "relative", "ddm"} |-> C18_Part(results, m)]
        count == Cardinality({m \in DOMAIN parts : VSign(parts[m]) > 0})
        total == VAdd(parts["dcf"], VAdd(parts["relative"], parts["ddm"]))
        med == sm.median_intrinsic_value
    IN "error" \notin DOMAIN sm =>
        /\ Len(sm.valuations) = Cardinality({m \in DOMAIN parts : C17_Ok(results, m)})
        /\ VEq(VMulQ(sm.average_intrinsic_value, QInt(count)), total)
        /\ count = 0 => VSign(sm.average_intrinsic_value) = 0 /\ VSign(med) = 0
        /\ count = 1 => VEq(med, total)
        /\ count = 2 => VEq(VMulQ(med, QInt(2)), total)
        /\ count = 3 =>
              /\ \E m \in DOMAIN parts : VEq(med, parts[m])
              /\ Cardinality({m \in DOMAIN parts : VLe(parts[m], med)}) >= 2
              /\ Cardinality({m \in DOMAIN parts : VLe(med, parts[m])}) >= 2

\* C18: the average intrinsic value of the summary is the mean of exactly the collected
\* method values (DCF intrinsic value, relative average, DDM intrinsic value, each only if
\* its method did not fail) that are strictly positive; zero and negative values are left
\* out of the average and of the median, and a failed method contributes nothing.
C18_AverageOfPositive ==
    /\ op = "_create_valuation_summary" => C18_Holds(args.results, result.value)
    /\ (op = "comprehensive_valuation" /\ "summary" \in DOMAIN result.value) =>
          C18_Holds(result.value, result.value.summary)

C18_Witness ==
    /\ op = "_create_valuation_summary"
    /\ args.results.dcf = [method |-> "DCF", intrinsic_value |-> VFromInt(-10)]
    /\ "error" \in DOMAIN args.results.relative
    /\ args.results.ddm = [method |-> "Dividend Discount Model", intrinsic_value |-> VFromInt(60)]
    /\ VEq(result.value.average_intrinsic_value, VFromInt(60))
    /\ VEq(result.value.median_intrinsic_value, VFromInt(60))
    /\ Len(result.value.valuations) = 2

\* C9: when project_fcf (years >= 1) followed by calculate_dcf succeeds, the intrinsic
\* value, the enterprise value and the terminal value are positive and the enterprise
\* value exceeds the present value of the explicit cash flows.
C9_PositiveValues ==
    (op = "dcf_pipeline" /\ args.years >= 1 /\ ~Raised(result)) =>
        /\ VSign(result.value.intrinsic_value) > 0
        /\ VSign(result.value.enterprise_value) > 0
        /\ VSign(result.value.terminal_value) > 0
        /\ VLt(result.value.pv_explicit_fcf, result.value.enterprise_value)

C9_Witness ==
    /\ op = "dcf_pipeline" /\ ~Raised(result)
    /\ args.years = MaxYears
    /\ args.growth_rate = Rat(-1, 2) /\ args.terminal_growth = Rat(-1, 10)
    /\ VSign(result.value.intrinsic_value) > 0
\* the values of a swept parameter that give a DCF point: fcf and shares are
\* positive and, with the other two parameters at their base value, the clamped wacc
\* is above the clamped terminal rate
C19_Valid(d, base_params, name, value) ==
    LET p == [base_params EXCEPT ![name] = value]
    IN /\ QLt(QInt(0), d.fcf) /\ QLt(QInt(0), d.shares_outstanding)
       /\ QLt(QMax(Rat(-1, 10), QMin(Rat(15, 100), p.terminal)),
              QMax(Rat(1, 100), QMin(Rat(1, 2), p.wacc)))

C19_Swept ==
    IF args.param_ranges = NoneValue THEN default_param_ranges(args.base_params)
    ELSE args.param_ranges

C19_ValidCount(name) ==
    Cardinality({i \in DOMAIN C19_Swept[name] :
                    C19_Valid(data, args.base_params, name, C19_Swept[name][i])})

\* C19: sensitivity_analysis_detailed, for every swept parameter: with fewer than 2
\* valid points (1 or 0) the result has an entry for the parameter that says
\* 'Insufficient data' and has no regression; with 2 or more valid points the entry
\* carries sensitivity, correlation and elasticity.
C19_InsufficientData ==
    (op = "sensitivity_analysis_detailed" /\ "error" \notin DOMAIN result.value)
    => \A name \in DOMAIN C19_Swept :
          /\ name \in DOMAIN result.value
          /\ IF C19_ValidCount(name) < 2
               THEN /\ "error" \in DOMAIN result.value[name]
                    /\ result.value[name].error = "Insufficient data"
                    /\ "sensitivity" \notin DOMAIN result.value[name]
             ELSE {"sensitivity", "correlation", "elasticity"}
                      \subseteq DOMAIN result.value[name]

\* C20: no call changes the snapshot the analyzer holds, and
\* sensitivity_analysis_detailed, the one method that writes swept values into a
\* parameter record, leaves the caller's base_params as it was passed.
C20_Frame ==
    [][/\ data' = data
       /\ op' = "sensitivity_analysis_detailed"
            => args'.base_params_after = args'.base_params]_vars

\* a sweep of wacc over two values other than the base value gave a regression, and
\* the caller's record still holds the base wacc
C20_Witness ==
    /\ op = "sensitivity_analysis_detailed"
    /\ args.param_ranges = [wacc |-> <<Rat(8, 100), Rat(15, 100)>>]
    /\ args.base_params.wacc = Rat(12, 100)
    /\ "wacc" \in DOMAIN result.value
    /\ "sensitivity" \in DOMAIN result.value.wacc
    /\ result.value.wacc.results[2].parameter_value = Rat(15, 100)
    /\ args.base_params_after = args.base_params

\* ------------------------------------------------------------------------
\* Further claims about the RiskAnalyzer, under SpecRisk.
\* ------------------------------------------------------------------------

C24_Trial(i) ==
    mc_trial(data, args.base_fcf, args.growth_params, args.wacc_params,
             args.terminal_params, args.draws[i])

C24_Survivors == {i \in 1..args.simulations : ~Raised(C24_Trial(i).dcf)}

C24_Values(r) == [a \in DOMAIN r.detailed_results |-> r.detailed_results[a].intrinsic_value]

\* the 5th percentile of k sorted values by linear interpolation, k <= 20
C24_Fifth(sorted) ==
    IF Len(sorted) = 1 THEN sorted[1]
    ELSE VAdd(sorted[1], VMulQ(VSub(sorted[2], sorted[1]), Rat(5 * (Len(sorted) - 1), 100)))

C24_Holds(r, k) ==
    /\ r.simulation_count = k
    /\ 0 < k /\ k <= args.simulations
    /\ Len(r.detailed_results) = (IF k < DetailCap THEN k ELSE DetailCap)
    /\ \E f \in [DOMAIN r.detailed_results -> C24_Survivors] :
          /\ \A a, b \in DOMAIN f : a < b => f[a] < f[b]
          /\ \A a \in DOMAIN f : r.detailed_results[a] = mc_entry(C24_Trial(f[a]))
    /\ \A a \in DOMAIN r.detailed_results :
          /\ VLe(r.min_value, r.detailed_results[a].intrinsic_value)
          /\ VLe(r.detailed_results[a].intrinsic_value, r.max_value)
    /\ \E a \in DOMAIN r.detailed_results : VEq(r.min_value, r.detailed_results[a].intrinsic_value)
    /\ \E a \in DOMAIN r.detailed_results : VEq(r.max_value, r.detailed_results[a].intrinsic_value)
    /\ VEq(VMulQ(r.mean_value, QInt(k)), VSum(C24_Values(r)))
    /\ r.var_95 = r.percentiles[5]
    /\ VEq(r.var_95, C24_Fifth(VSortTo(C24_Values(r), k)))

C25_Raw ==
    IF op = "scenario_analysis"
      THEN {scenario_params(args.base_params)[n] : n \in DOMAIN scenario_params(args.base_params)}
    ELSE IF op = "stress_testing"
      THEN {stress_params(args.base_params)[n] : n \in DOMAIN stress_params(args.base_params)}
    ELSE IF op = "monte_carlo_simulation"
      THEN {[growth |-> QAdd(args.growth_params.mean,
                             QMul(args.growth_params.std, args.draws[i][1])),
             wacc |-> QAdd(args.wacc_params.mean,
                           QMul(args.wacc_params.std, args.draws[i][2])),
             terminal |-> QAdd(args.terminal_params.mean,
                               QMul(args.terminal_params.std, args.draws[i][3]))] :
               i \in 1..args.simulations}
    ELSE {}

\* the parameter sets the results of the three methods show
C25_Produced ==
    IF op \notin {"monte_carlo_simulation", "scenario_analysis", "stress_testing"} THEN {}
    ELSE IF Raised(result) \/ "error" \in DOMAIN result.value THEN {}
    ELSE IF op = "monte_carlo_simulation"
      THEN {result.value.detailed_results[a] : a \in DOMAIN result.value.detailed_results}
    ELSE IF op = "scenario_analysis"
      THEN {result.value.scenarios[n].parameters :
               n \in {m \in DOMAIN result.value.scenarios :
                         "parameters" \in DOMAIN result.value.scenarios[m]}}
    ELSE {result.value.stress_scenarios[n].parameters :
             n \in {m \in DOMAIN result.value.stress_scenarios :
                       "parameters" \in DOMAIN result.value.stress_scenarios[m]}}

C25_Passes(p) ==
    /\ ValidRates(p.growth, p.wacc, p.terminal)
    /\ ~Raised(validate_inputs(VFromInt(1), p.growth, p.wacc, p.terminal, QInt(1)))

\* C25: for every raw parameter triple that scenario_analysis, stress_testing and
\* monte_carlo_simulation clamp and repair, the outcome passes validation: growth in
\* [-0.5, 1.0], wacc in [0.01, 0.50], terminal in [-0.10, 0.15] and wacc strictly above
\* terminal; the parameter sets in their results are such outcomes.
C25_ClampRepairValid ==
    /\ \A raw \in C25_Raw :
          C25_Passes(clamp_and_repair(raw.growth, raw.wacc, raw.terminal))
    /\ \A params \in C25_Produced :
          /\ C25_Passes(params)
          /\ \E raw \in C25_Raw :
                LET p == clamp_and_repair(raw.growth, raw.wacc, raw.terminal)
                IN p.growth = params.growth /\ p.wacc = params.wacc
                   /\ p.terminal = params.terminal

\* a scenario whose clamped wacc was not above the clamped terminal rate was repaired
C25_Witness ==
    /\ op = "scenario_analysis"
    /\ args.base_params.wacc = Rat(1, 100)
    /\ args.base_params.terminal = Rat(1, 5)
    /\ "error" \notin DOMAIN result.value
    /\ result.value.scenarios["base"].parameters.wacc = Rat(1, 100)
    /\ result.value.scenarios["base"].parameters.terminal = Rat(0, 1)

\* C26: monte_carlo_simulation with base_fcf > 0 on a snapshot with shares > 0 discards
\* no trial, whatever is sampled: simulation_count = simulations and
\* probability_positive = 1; with base_fcf <= 0 or shares <= 0 it discards every trial.
C26_AllOrNothing ==
    (op = "monte_carlo_simulation" /\ args.simulations > 0) =>
        IF QLt(QInt(0), args.base_fcf) /\ QLt(QInt(0), data.shares_outstanding)
          THEN /\ "error" \notin DOMAIN result.value
               /\ result.value.simulation_count = args.simulations
               /\ result.value.probability_positive = Rat(1, 1)
               /\ \A i \in 1..args.simulations : ~Raised(C24_Trial(i).dcf)
        ELSE /\ result.value = [error |-> "No valid simulation results"]
             /\ \A i \in 1..args.simulations : Raised(C24_Trial(i).dcf)

\* a trial whose samples validation would reject (terminal 0.11 above wacc 0.06) was
\* kept
C26_Witness ==
    /\ op = "monte_carlo_simulation"
    /\ args.simulations = 2
    /\ args.wacc_params = [mean |-> Rat(1, 10), std |-> Rat(1, 50)]
    /\ args.terminal_params.std = Rat(1, 25)
    /\ args.draws[1] = <<QInt(2), QInt(-2), QInt(2)>>
    /\ "error" \notin DOMAIN result.value
    /\ result.value.simulation_count = 2
    /\ result.value.probability_positive = Rat(1, 1)

\* C27: scenario_analysis gives no mixed result: on a snapshot with fcf > 0 and
\* shares > 0 each of bear, base and bull carries an intrinsic value, for every base
\* parameter set; on any other snapshot all three fail and the call returns
\* 'No valid scenario results'.
C27_NoMixedScenarios ==
    op = "scenario_analysis" =>
        /\ ~Raised(result)
        /\ IF QLt(QInt(0), data.fcf) /\ QLt(QInt(0), data.shares_outstanding)
             THEN /\ "error" \notin DOMAIN result.value
                  /\ DOMAIN result.value.scenarios = {"bear", "base", "bull"}
                  /\ \A n \in DOMAIN result.value.scenarios :
                        /\ "intrinsic_value" \in DOMAIN result.value.scenarios[n]
                        /\ "error" \notin DOMAIN result.value.scenarios[n]
           ELSE result.value = [error |-> "No valid scenario results"]

\* base parameters far outside the bounds, with wacc below terminal, gave three values
C27_Witness ==
    /\ op = "scenario_analysis"
    /\ args.base_params = [growth |-> Rat(6, 5), wacc |-> Rat(1, 100), terminal |-> Rat(1, 5)]
    /\ "error" \notin DOMAIN result.value
    /\ \A n \in {"bear", "base", "bull"} :
          "intrinsic_value" \in DOMAIN result.value.scenarios[n]

\* the snapshot has no current price, or one that is zero or negative
C30_NoPrice == "current_price" \notin DOMAIN data \/ QLe(data.current_price, QInt(0))

\* the call returned its summary, not an error record
C30_Summary == ~Raised(result) /\ "error" \notin DOMAIN result.value

\* C30: on a snapshot whose current price is missing, zero or negative, stress_testing
\* reports downside_from_current = 0 for every scenario that has an intrinsic value,
\* maximum_downside = 0 and the label "High Resilience", and scenario_analysis reports
\* bull_upside = 0 and bear_downside = 0, whatever the intrinsic values are.
C30_NoPriceNoDownside ==
    /\ (op = "stress_testing" /\ C30_NoPrice /\ C30_Summary) =>
          /\ \A n \in DOMAIN result.value.stress_scenarios :
                "intrinsic_value" \in DOMAIN result.value.stress_scenarios[n] =>
                    VEq(result.value.stress_scenarios[n].downside_from_current, VZero)
          /\ VEq(result.value.maximum_downside, VZero)
          /\ result.value.stress_resilience = "High Resilience"
    /\ (op = "scenario_analysis" /\ C30_NoPrice /\ C30_Summary) =>
          /\ VEq(result.value.upside_downside.bull_upside, VZero)
          /\ VEq(result.value.upside_downside.bear_downside, VZero)

\* a stress test on a negative price: four valued scenarios, none with a downside
C30_Witness ==
    /\ op = "stress_testing"
    /\ "current_price" \in DOMAIN data /\ data.current_price = QInt(-5)
    /\ C30_Summary
    /\ \A n \in DOMAIN result.value.stress_scenarios :
          /\ "intrinsic_value" \in DOMAIN result.value.stress_scenarios[n]
          /\ VSign(result.value.stress_scenarios[n].intrinsic_value) > 0
    /\ result.value.stress_resilience = "High Resilience"

\* the same without a price in the snapshot, and a scenario analysis without one
C30_WitnessMissing ==
    /\ op = "stress_testing"
    /\ "current_price" \notin DOMAIN data
    /\ C30_Summary
    /\ VEq(result.value.maximum_downside, VZero)

C30_WitnessScenarios ==
    /\ op = "scenario_analysis"
    /\ "current_price" \in DOMAIN data /\ data.current_price = QInt(0)
    /\ C30_Summary
    /\ VSign(result.value.scenarios["bull"].intrinsic_value) > 0
    /\ VEq(result.value.upside_downside.bull_upside, VZero)

\* ------------------------------------------------------------------------
\* Further claims about the DCF engine, under Spec.
\* ------------------------------------------------------------------------

C23_EmptyError == Raise("ValueError", "FCF list cannot be empty")

\* C23: calculate_dcf on an empty list raises "FCF list cannot be empty" whatever
\* wacc, terminal growth and shares are (also when they would fail validation);
\* project_fcf with years <= 0 and a base and growth it accepts returns the empty
\* list, and the pipeline on it raises that same error.
C23_EmptyListFirst ==
    /\ (op = "calculate_dcf" /\ args.fcf_list = <<>>) => result = C23_EmptyError
    /\ (op = "project_fcf" /\ args.years <= 0 /\ ~Raised(result)) => result.value = <<>>
    /\ (op = "project_fcf" /\ args.years <= 0 /\ QLt(QInt(0), args.base_fcf)
           /\ ~Outside(args.growth_rate, GrowthMin, GrowthMax)) => ~Raised(result)
    /\ (op = "dcf_pipeline" /\ args.years <= 0 /\ QLt(QInt(0), args.base_fcf)
           /\ ~Outside(args.growth_rate, GrowthMin, GrowthMax)) => result = C23_EmptyError

\* the empty list met rates and a share count that validation would reject
C23_Witness ==
    /\ op = "calculate_dcf"
    /\ args.fcf_list = <<>>
    /\ args.wacc = Rat(51, 100)
    /\ args.terminal_growth = Rat(4, 25)
    /\ args.shares_outstanding = QInt(0)
    /\ result = C23_EmptyError

\* the ValueError of calculate_dcf's `except ZeroDivisionError` branch
C28_Translated == Raise("ValueError", "WACC must be greater than terminal growth rate")

\* the outcome of the validation calculate_dcf runs on a non-empty list
C28_Validation ==
    validate_inputs(args.fcf_list[1], PlaceholderGrowth, args.wacc, args.terminal_growth,
                    args.shares_outstanding)

C28_WitnessMatrix ==
    /\ op = "generate_sensitivity_matrix"
    /\ ~Raised(result)
    /\ Len(result.value) >= 2

\* the rates and the share count of a calculate_dcf call are the ones validate_inputs
\* accepts
C29_RatesValid ==
    /\ QLe(WaccMin, args.wacc) /\ QLe(args.wacc, WaccMax)
    /\ QLe(TerminalMin, args.terminal_growth) /\ QLe(args.terminal_growth, TerminalMax)
    /\ QLt(args.terminal_growth, args.wacc)
    /\ QLt(QInt(0), args.shares_outstanding)

\* C29: calculate_dcf checks the sign of the first element of the list only and no
\* growth rate: with valid rates and shares a list is accepted exactly when its first
\* element is positive, whatever the later elements are and whatever growth they
\* imply, and the record returned is the one the arithmetic gives on the whole list
\* (so its intrinsic value can be zero or negative, see the witnesses).
C29_FirstElementOnly ==
    (op = "calculate_dcf" /\ args.fcf_list # <<>>) =>
        /\ result # Raise("ValueError", "Growth rate should be between -50% and 100%")
        /\ C29_RatesValid =>
              /\ VSign(args.fcf_list[1]) > 0 =>
                    /\ ~Raised(result)
                    /\ result = calculate_dcf_body(args.fcf_list, args.wacc,
                                                   args.terminal_growth,
                                                   args.shares_outstanding)
              /\ VSign(args.fcf_list[1]) <= 0 =>
                    result = Raise("ValueError", "Base FCF must be positive")

\* [2, -1, -1] at wacc 0.1, terminal 0.03 and 2 shares is accepted and valued below zero
C29_Witness ==
    /\ op = "calculate_dcf"
    /\ args.fcf_list = <<VFromInt(2), VFromInt(-1), VFromInt(-1)>>
    /\ args.wacc = Rat(1, 10) /\ args.terminal_growth = Rat(3, 100)
    /\ args.shares_outstanding = QInt(2)
    /\ ~Raised(result)
    /\ VSign(result.value.intrinsic_value) < 0

\* [2, -1] at wacc 0.5, terminal 0 and 2 shares is accepted and valued exactly zero
C29_WitnessZero ==
    /\ op = "calculate_dcf"
    /\ args.fcf_list = <<VFromInt(2), VFromInt(-1)>>
    /\ args.wacc = Rat(1, 2) /\ args.terminal_growth = QInt(0)
    /\ args.shares_outstanding = QInt(2)
    /\ ~Raised(result)
    /\ VSign(result.value.intrinsic_value) = 0

\* [2, 0, 0]: zeros after a positive first element are accepted
C29_WitnessZeros ==
    /\ op = "calculate_dcf"
    /\ args.fcf_list = <<VFromInt(2), VFromInt(0), VFromInt(0)>>
    /\ C29_RatesValid
    /\ ~Raised(result)
    /\ VSign(result.value.intrinsic_value) > 0

\* ------------------------------------------------------------------------
\* Claims about the data utilities, under SpecData.
\* ------------------------------------------------------------------------

C21_Shares(d) == IF "shares_outstanding" \in DOMAIN d THEN d["shares_outstanding"] ELSE PyNone

\* C21: clean_data on a record whose share count is missing, None, NaN or a number
\* returns a record with the keys of the input (and shares_outstanding), in which a
\* None or NaN value has become 0 and every other value is as it was, except that
\* shares_outstanding is 1 when it was missing, None, NaN, zero or negative; a positive
\* share count stays.
C21_CleanData ==
    (op = "clean_data" /\ C21_Shares(args.data_dict).kind # "str")
    => /\ ~Raised(result)
       /\ DOMAIN result.value = DOMAIN args.data_dict \cup {"shares_outstanding"}
       /\ \A key \in DOMAIN args.data_dict \ {"shares_outstanding"} :
             result.value[key] = IF args.data_dict[key] \in {PyNone, PyNaN} THEN PyNum(0)
                                 ELSE args.data_dict[key]
       /\ result.value["shares_outstanding"] =
             IF C21_Shares(args.data_dict).kind = "num" /\ C21_Shares(args.data_dict).v > 0
               THEN C21_Shares(args.data_dict)
             ELSE PyNum(1)

\* a record with zero shares, a None cash flow and a ticker has been cleaned
C21_Witness ==
    /\ op = "clean_data"
    /\ args.data_dict = [fcf |-> PyNone, shares_outstanding |-> PyNum(0), ticker |-> PyStr("T")]
    /\ result.value = [fcf |-> PyNum(0), shares_outstanding |-> PyNum(1), ticker |-> PyStr("T")]

\* C22: calculate_free_cash_flow on a statement whose first column has operating cash
\* flow O and capital expenditures C returns O - C.
C22_FcfIsDifference ==
    (/\ op = "calculate_free_cash_flow"
     /\ args.cashflow.columns > 0
     /\ {"Total Cash From Operating Activities", "Capital Expenditures"}
            \subseteq DOMAIN args.cashflow.first
     /\ args.cashflow.first["Total Cash From Operating Activities"].kind = "num"
     /\ args.cashflow.first["Capital Expenditures"].kind = "num")
    => result.value = args.cashflow.first["Total Cash From Operating Activities"].v
                      - args.cashflow.first["Capital Expenditures"].v

====
